---- MODULE Spec2Model ----
(***************************************************************************)
(* Model of the TensorView library (arotem3/TensorView): spans, the three  *)
(* shape strategies (DynamicTensorShape, FixedTensorShape, StridedShape),  *)
(* ViewContainer, BaseTensor indexing and sub-view construction.           *)
(*                                                                         *)
(* The model is of the checked build (TENSOR_DEBUG defined), host side     *)
(* (index_t = unsigned long).  index_t arithmetic wraps; the model keeps   *)
(* the wrap but narrows the word to IndexMod values, since TLC's integers  *)
(* are 32 bit.  Sequences are 1-based, so dimension Dim of the source is   *)
(* position Dim + 1 of a sequence; coordinates and offsets stay 0-based.   *)
(***************************************************************************)
EXTENDS Integers, Sequences, FiniteSets, TLC

\* ------------------------------------------------------------------ bounds
IndexMod == 32768
MaxStride == 2
MaxProbe == 5

\* -------------------------------------------------------------- index_t
Wrap(x) == x % IndexMod

Min(a, b) == IF a < b THEN a ELSE b

RECURSIVE Product(_)
Product(s) == IF s = <<>> THEN 1 ELSE Wrap(Head(s) * Product(Tail(s)))

\* ----------------------------------------------------------------- span
span(Begin, End, inc) == [begin |-> Begin, end |-> End, stride |-> inc]

\* mutation of span::size(): the stride is left out
size_without_stride(x) == Wrap(x.end - x.begin)

\* span::size(); unsigned subtraction and division
size(x) == Wrap(x.end - x.begin) \div x.stride

\* the three kinds of argument of operator(): integer, span, all
Idx(i) == [t |-> "idx", i |-> i]
Spn(b, e, s) == [t |-> "span", begin |-> b, end |-> e, stride |-> s]
All == [t |-> "all"]

\* details::operator+(const span &, index_t) and (index_t, const span &)
span_plus_index(x, i) == span(Wrap(x.begin + i), Wrap(x.end + i), x.stride)

\* details::operator*(index_t, const span &)
index_times_span(s, x) == span(Wrap(s * x.begin), Wrap(s * x.end), Wrap(s * x.stride))

\* details::add: offset a multidimensional span by an index (first span only)
add(i, spans) == <<span_plus_index(spans[1], i)>> \o Tail(spans)

\* details::scale: scale every span of a multidimensional span
scale(s, spans) == [d \in 1..Len(spans) |-> index_times_span(s, spans[d])]

\* mutation of details::offset: only the first begin is taken
offset_of_first(spans) == IF spans = <<>> THEN 0 ELSE spans[1].begin

\* details::offset: sum of the begins of a multidimensional span
RECURSIVE offset(_)
offset(spans) == IF spans = <<>> THEN 0 ELSE Wrap(spans[1].begin + offset(Tail(spans)))

\* The value of a compute_index call: an index_t, or one or more spans.
\* A single span is a sequence of length one (the source's `span`), two or
\* more are the source's std::array<span, N>.
IndexVal(i) == [k |-> "index", i |-> i, s |-> <<>>]
SpansVal(s) == [k |-> "spans", i |-> 0, s |-> s]

\* `s * v` for v an index or spans
Times(s, v) == IF v.k = "index" THEN IndexVal(Wrap(s * v.i)) ELSE SpansVal(scale(s, v.s))

\* `h + v`, h an index or a single span, v an index, a span or an array:
\* the overloads of details::operator+
Plus(h, v) ==
  IF h.k = "index"
    THEN IF v.k = "index" THEN IndexVal(Wrap(h.i + v.i)) ELSE SpansVal(add(h.i, v.s))
    ELSE IF v.k = "index" THEN SpansVal(<<span_plus_index(h.s[1], v.i)>>)
                          ELSE SpansVal(h.s \o v.s)

\* outcome of a call: the exception it ends with (or "none") and its value
Ok(v) == [err |-> "none", val |-> v]
Throw(e) == [err |-> e, val |-> IndexVal(0)]

\* --------------------------------------------------- DynamicTensorShape
\* DynamicTensorShape<Rank>(shape_...): the extents given, padded with 1s
DynamicTensorShape(Rank, ext) ==
  [kind |-> "Dynamic", len |-> Product(ext),
   shape |-> [d \in 1..Rank |-> IF d <= Len(ext) THEN ext[d] ELSE 1],
   strides |-> <<>>]

\* mutation of compute_index: the extent of the dimension is not multiplied in
RECURSIVE DynamicComputeIndexUnscaled(_, _, _)
DynamicComputeIndexUnscaled(S, args, Dim) ==
  LET a == args[Dim]
      n == S.shape[Dim]
      h == CASE a.t = "idx"  -> IndexVal(a.i)
             [] a.t = "span" -> SpansVal(<<span(a.begin, a.end, a.stride)>>)
             [] a.t = "all"  -> SpansVal(<<span(0, n, 1)>>)
  IN  IF a.t = "idx" /\ a.i >= n THEN Throw("OutOfRange")
      ELSE IF a.t = "span" /\ a.end > n THEN Throw("OutOfRange")
      ELSE IF Dim < Len(S.shape)
        THEN LET r == DynamicComputeIndexUnscaled(S, args, Dim + 1)
             IN  IF r.err # "none" THEN r ELSE Ok(Plus(h, r.val))
        ELSE Ok(h)

\* DynamicTensorShape::compute_index<Dim>, for the three kinds of argument
RECURSIVE DynamicComputeIndex(_, _, _)
DynamicComputeIndex(S, args, Dim) ==
  LET a == args[Dim]
      n == S.shape[Dim]
      h == CASE a.t = "idx"  -> IndexVal(a.i)
             [] a.t = "span" -> SpansVal(<<span(a.begin, a.end, a.stride)>>)
             [] a.t = "all"  -> SpansVal(<<span(0, n, 1)>>)
  IN  IF a.t = "idx" /\ a.i >= n THEN Throw("OutOfRange")
      ELSE IF a.t = "span" /\ a.end > n THEN Throw("OutOfRange")
      ELSE IF Dim < Len(S.shape)
        THEN LET r == DynamicComputeIndex(S, args, Dim + 1)
             IN  IF r.err # "none" THEN r ELSE Ok(Plus(h, Times(n, r.val)))
        ELSE Ok(h)

\* mutation of operator[]: the bound is tested with > instead of >=
DynamicLinearOffByOne(S, index) ==
  IF index > S.len THEN Throw("OutOfRange") ELSE Ok(IndexVal(index))

\* DynamicTensorShape::operator[]
DynamicLinear(S, index) ==
  IF index >= S.len THEN Throw("OutOfRange") ELSE Ok(IndexVal(index))

\* ----------------------------------------------------- FixedTensorShape
FixedTensorShape(ext) ==
  [kind |-> "Fixed", len |-> Product(ext), shape |-> ext, strides |-> <<>>]

\* mutation of compute_index: the rest is scaled by the next extent of the pack
RECURSIVE FixedComputeIndexNextExtent(_, _)
FixedComputeIndexNextExtent(Ns, args) ==
  LET a == Head(args)
      N == Head(Ns)
      h == CASE a.t = "idx"  -> IndexVal(a.i)
             [] a.t = "span" -> SpansVal(<<span(a.begin, a.end, a.stride)>>)
             [] a.t = "all"  -> SpansVal(<<span(0, N, 1)>>)
  IN  IF a.t = "idx" /\ a.i >= N THEN Throw("OutOfRange")
      ELSE IF a.t = "span" /\ a.end > N THEN Throw("OutOfRange")
      ELSE IF Tail(args) = <<>>
        THEN Ok(h)
        ELSE LET r == FixedComputeIndexNextExtent(Tail(Ns), Tail(args))
             IN  IF r.err # "none" THEN r ELSE Ok(Plus(h, Times(Head(Tail(Ns)), r.val)))

\* FixedTensorShape::compute_index<N, Ns...>: Ns is the tail of the pack
RECURSIVE FixedComputeIndex(_, _)
FixedComputeIndex(Ns, args) ==
  LET a == Head(args)
      N == Head(Ns)
      h == CASE a.t = "idx"  -> IndexVal(a.i)
             [] a.t = "span" -> SpansVal(<<span(a.begin, a.end, a.stride)>>)
             [] a.t = "all"  -> SpansVal(<<span(0, N, 1)>>)
  IN  IF a.t = "idx" /\ a.i >= N THEN Throw("OutOfRange")
      ELSE IF a.t = "span" /\ a.end > N THEN Throw("OutOfRange")
      ELSE IF Tail(args) = <<>>
        THEN Ok(h)
        ELSE LET r == FixedComputeIndex(Tail(Ns), Tail(args))
             IN  IF r.err # "none" THEN r ELSE Ok(Plus(h, Times(N, r.val)))

\* mutation of operator[]: the elements are counted from the last one
FixedLinearFromEnd(S, index) ==
  IF index >= S.len THEN Throw("OutOfRange") ELSE Ok(IndexVal(S.len - 1 - index))

\* FixedTensorShape::operator[]
FixedLinear(S, index) ==
  IF index >= S.len THEN Throw("OutOfRange") ELSE Ok(IndexVal(index))

\* --------------------------------------------------------- StridedShape
\* StridedShape<Rank>::StridedShape(spans), Rank >= 2
RECURSIVE StridedLen(_)
StridedLen(spans) == IF spans = <<>> THEN 1 ELSE Wrap(StridedLen(Tail(spans)) * size(Head(spans)))

StridedShape(spans) ==
  [kind |-> "Strided", len |-> StridedLen(spans),
   shape |-> [d \in 1..Len(spans) |-> size(spans[d])],
   strides |-> [d \in 1..Len(spans) |-> spans[d].stride]]

\* StridedShape<1>::StridedShape(x)
StridedShape1(x) ==
  [kind |-> "Strided1", len |-> size(x), shape |-> <<size(x)>>, strides |-> <<x.stride>>]

\* mutation of StridedShape::compute_index: a span argument is not scaled by
\* the stride of its dimension
RECURSIVE StridedComputeIndexUnscaledSpan(_, _, _)
StridedComputeIndexUnscaledSpan(S, args, Dim) ==
  LET a == args[Dim]
      n == S.shape[Dim]
      st == S.strides[Dim]
      h == CASE a.t = "idx"  -> IndexVal(Wrap(st * a.i))
             [] a.t = "span" -> SpansVal(<<span(a.begin, a.end, a.stride)>>)
             [] a.t = "all"  -> SpansVal(<<index_times_span(st, span(0, n, 1))>>)
  IN  IF a.t = "idx" /\ a.i >= n THEN Throw("OutOfRange")
      ELSE IF a.t = "span" /\ a.end > n THEN Throw("OutOfRange")
      ELSE IF Dim < Len(S.shape)
        THEN LET r == StridedComputeIndexUnscaledSpan(S, args, Dim + 1)
             IN  IF r.err # "none" THEN r ELSE Ok(Plus(h, r.val))
        ELSE Ok(h)

\* StridedShape<Rank>::compute_index<Dim>
RECURSIVE StridedComputeIndex(_, _, _)
StridedComputeIndex(S, args, Dim) ==
  LET a == args[Dim]
      n == S.shape[Dim]
      st == S.strides[Dim]
      h == CASE a.t = "idx"  -> IndexVal(Wrap(st * a.i))
             [] a.t = "span" -> SpansVal(<<index_times_span(st, span(a.begin, a.end, a.stride))>>)
             [] a.t = "all"  -> SpansVal(<<index_times_span(st, span(0, n, 1))>>)
  IN  IF a.t = "idx" /\ a.i >= n THEN Throw("OutOfRange")
      ELSE IF a.t = "span" /\ a.end > n THEN Throw("OutOfRange")
      ELSE IF Dim < Len(S.shape)
        THEN LET r == StridedComputeIndex(S, args, Dim + 1)
             IN  IF r.err # "none" THEN r ELSE Ok(Plus(h, r.val))
        ELSE Ok(h)

\* StridedShape<Rank>::operator[]
StridedLinear(S, index) ==
  IF index >= S.len THEN Throw("OutOfRange") ELSE Ok(IndexVal(Wrap(index * S.strides[1])))

\* StridedShape<1>::operator(): index_t, span and all overloads
Strided1Call(S, a) ==
  CASE a.t = "idx"  -> IF a.i >= S.len THEN Throw("OutOfRange")
                       ELSE Ok(IndexVal(Wrap(S.strides[1] * a.i)))
    [] a.t = "span" -> IF a.end >= S.len THEN Throw("OutOfRange")
                       ELSE Ok(SpansVal(<<index_times_span(S.strides[1], span(a.begin, a.end, a.stride))>>))
    [] a.t = "all"  -> Ok(SpansVal(<<index_times_span(S.strides[1], span(0, S.len, 1))>>))

\* mutation of StridedShape<1>::operator[]: the stride is left out
Strided1LinearUnstrided(S, index) ==
  IF index >= S.len THEN Throw("OutOfRange") ELSE Ok(IndexVal(index))

\* StridedShape<1>::operator[]
Strided1Linear(S, index) ==
  IF index >= S.len THEN Throw("OutOfRange") ELSE Ok(IndexVal(Wrap(index * S.strides[1])))

\* ------------------------------------------- Shape::operator() dispatch
\* _shape(indices...) for the shape type of the tensor
ShapeCall(S, args) ==
  CASE S.kind = "Dynamic"  -> DynamicComputeIndex(S, args, 1)
    [] S.kind = "Fixed"    -> FixedComputeIndex(S.shape, args)
    [] S.kind = "Strided"  -> StridedComputeIndex(S, args, 1)
    [] S.kind = "Strided1" -> Strided1Call(S, args[1])

\* _shape[index] for the shape type of the tensor
ShapeLinear(S, index) ==
  CASE S.kind = "Dynamic"  -> DynamicLinear(S, index)
    [] S.kind = "Fixed"    -> FixedLinear(S, index)
    [] S.kind = "Strided"  -> StridedLinear(S, index)
    [] S.kind = "Strided1" -> Strided1Linear(S, index)

\* -------------------------------------------------------- ViewContainer
\* A pointer is a buffer and an element offset in it; nullptr has no buffer.
NullPtr == [buf |-> "null", off |-> 0]

\* ViewContainer(pointer data)
ViewContainer(data) == data

\* mutation of make_view: the offset is dropped
make_view_at_start(x, off) == ViewContainer([buf |-> x.buf, off |-> x.off])

\* container_traits<ViewContainer<T>>::make_view(x, offset): x.data() + offset
make_view(x, off) == ViewContainer([buf |-> x.buf, off |-> x.off + off])

\* TransformedContainerWrapper(container, func)
TransformedContainerWrapper(container, func) ==
  [kind |-> "transformed", container |-> container, func |-> func]

\* the container is a TransformedContainerWrapper, not a ViewContainer
IsTransformed(c) == "kind" \in DOMAIN c

\* container_traits<Container>::make_view(x, offset): for a
\* TransformedContainerWrapper, view_type(ct::make_view(x._container, offset),
\* Func{x._func}); for a ViewContainer, make_view above
RECURSIVE ContainerMakeView(_, _)
ContainerMakeView(x, off) ==
  IF IsTransformed(x)
    THEN TransformedContainerWrapper(ContainerMakeView(x.container, off), x.func)
    ELSE make_view(x, off)

\* the element a ViewContainer's operator[] refers to: ptr[index]
Address(ptr, index) == [buf |-> ptr.buf, off |-> ptr.off + index]

InBuffer(m, a) == a.buf \in DOMAIN m /\ a.off >= 0 /\ a.off < Len(m[a.buf])

\* ----------------------------------------------------------- BaseTensor
BaseTensor(shape_, container_) == [shape |-> shape_, container |-> container_]

NoShape == [kind |-> "None", len |-> 0, shape |-> <<>>, strides |-> <<>>]
NoTensor == BaseTensor(NoShape, NullPtr)

\* details::make_subview(container, spans) and make_subview(container, s)
make_subview(container, spans) ==
  IF Len(spans) = 1
    THEN BaseTensor(StridedShape1(spans[1]), ContainerMakeView(container, spans[1].begin))
    ELSE BaseTensor(StridedShape(spans), ContainerMakeView(container, offset(spans)))

order(t) == Len(t.shape.shape)

\* What a call on a tensor comes to, before memory is touched:
\*   "throw"   the shape (or the container) signals err
\*   "elem"    the call refers to the element at address at
\*   "view"    the call returns the sub-view view
Outcome(k, e, a, v) == [k |-> k, err |-> e, at |-> a, view |-> v]

\* mutation of ViewContainer::operator[]: ptr is not tested
ContainerGetUnchecked(c, index) == Outcome("elem", "none", Address(c, index), NoTensor)

\* ViewContainer::operator[]: BadAccess on nullptr, else ptr[index]
ContainerGet(c, index) ==
  IF c = NullPtr THEN Outcome("throw", "BadAccess", NullPtr, NoTensor)
  ELSE Outcome("elem", "none", Address(c, index), NoTensor)

\* BaseTensor::subview(index_t), subview(spans), subview(span)
subview(t, v) ==
  IF v.k = "index" THEN ContainerGet(t.container, v.i)
  ELSE Outcome("view", "none", NullPtr, make_subview(t.container, v.s))

\* BaseTensor::operator()(indices...) and at(indices...)
TensorAt(t, args) ==
  LET r == ShapeCall(t.shape, args)
  IN  IF r.err # "none" THEN Outcome("throw", r.err, NullPtr, NoTensor)
      ELSE subview(t, r.val)

\* BaseTensor::operator[](index)
TensorLinear(t, index) ==
  LET r == ShapeLinear(t.shape, index)
  IN  IF r.err # "none" THEN Outcome("throw", r.err, NullPtr, NoTensor)
      ELSE ContainerGet(t.container, r.val.i)

\* ------------------------------------------------------ client programs
\* The programs of test/access.cpp and test/iterator.cpp, generalised: an
\* array `data` holding 1, 2, .., n is viewed as a TensorView or a
\* FixedTensorView T of n elements; the program calls T once, and when the
\* call returns a sub-view it calls that sub-view once, and so on.
VARIABLES
  mem,       \* the arrays of the program: buffer name -> sequence of elements
  T,         \* the tensor over `data`
  sub,       \* the sub-view returned by the call on T (NoTensor before)
  sub2,      \* the sub-view returned by the call on sub (NoTensor before)
  pc,        \* position of the program: "start", "sub", "sub2", "done"
  call,      \* the last call: the tensor it was made on, its kind and arguments
  subArgs,   \* the arguments of the call on T that returned sub
  sub2Args,  \* the arguments of the call on sub that returned sub2
  ret,       \* how the last call ended: exception (or "none") and value read
  it,        \* the iterator of the loop the program is in (NoIter outside one)
  tr,        \* the Transformer the program built last (NoTensor before)
  chain      \* the functions tr was built with, the first applied first

vars == <<mem, T, sub, sub2, pc, call, subArgs, sub2Args, ret, it, tr, chain>>

\* double data[n] = {1, 2, .., n}
DataArray(n) == [i \in 1..n |-> i]

DataPtr == [buf |-> "data", off |-> 0]

\* TensorView<scalar, Rank>(data, shape...)
TensorView(data, ext) == BaseTensor(DynamicTensorShape(Len(ext), ext), ViewContainer(data))

\* FixedTensorView<scalar, Shape...>(data)
FixedTensorView(data, ext) == BaseTensor(FixedTensorShape(ext), ViewContainer(data))

\* extents of the tensors the programs build
Shapes == {<<4>>, <<2, 3>>, <<3, 2>>, <<2, 1, 2>>}
NestedShapes == {<<4>>, <<2, 2>>}

RootTensors(shapes) ==
  {TensorView(DataPtr, e) : e \in shapes} \cup {FixedTensorView(DataPtr, e) : e \in shapes}

\* arguments tried on an axis of extent n: the indices up to the first one
\* out of range, all, and the spans over begin <= n, end <= n + 1
Probe(n) == 0..Min(n, MaxProbe)
AxisArgs(n) ==
  {Idx(i) : i \in Probe(n)} \cup {All}
    \cup {Spn(b, e, s) : b \in Probe(n), e \in Probe(n + 1), s \in 1..MaxStride}
ScalarArgs(n) == {Idx(i) : i \in Probe(n)}

RECURSIVE ArgTuples(_)
ArgTuples(ext) ==
  IF ext = <<>> THEN {<<>>}
  ELSE {<<a>> \o t : a \in AxisArgs(Head(ext)), t \in ArgTuples(Tail(ext))}

RECURSIVE ScalarTuples(_)
ScalarTuples(ext) ==
  IF ext = <<>> THEN {<<>>}
  ELSE {<<a>> \o t : a \in ScalarArgs(Head(ext)), t \in ScalarTuples(Tail(ext))}

NoCall == [on |-> "none", op |-> "none", args |-> <<>>, index |-> 0, value |-> 0]

\* how a call ended: the exception, the element the returned reference
\* refers to (NullPtr when none) and the value read or written there
Ret(e, r, v) == [err |-> e, ref |-> r, val |-> v]
NoRet == Ret("none", NullPtr, 0)

\* Reading outside every array is undefined: any value, or a crash.
RECURSIVE Elements(_)
Elements(q) == IF q = <<>> THEN {} ELSE {Head(q)} \cup Elements(Tail(q))
UBRead(m, a) == {Ret("none", a, v) : v \in Elements(m["data"])} \cup {Ret("crash", a, 0)}

\* mutation of Load: the value the element had when the array was filled
LoadAsFilled(m, a) == IF InBuffer(m, a) THEN {Ret("none", a, a.off + 1)}
                      ELSE UBRead(m, a)

\* the ways reading the element at address a can end
Load(m, a) == IF InBuffer(m, a) THEN {Ret("none", a, m[a.buf][a.off + 1])}
              ELSE UBRead(m, a)

\* the ways a call that came to outcome o can end, reading the element
Finish(m, o) == IF o.k = "throw" THEN {Ret(o.err, NullPtr, 0)}
                ELSE IF o.k = "elem" THEN Load(m, o.at)
                ELSE {NoRet}

\* no iterator: the program is in no loop
NoIter == [on |-> "none", shape |-> NoShape, container |-> NullPtr, pos |-> 0]

InitOver(shapes) ==
  /\ T \in RootTensors(shapes)
  /\ mem = [b \in {"data"} |-> DataArray(T.shape.len)]
  /\ sub = NoTensor /\ sub2 = NoTensor
  /\ pc = "start"
  /\ call = NoCall /\ subArgs = <<>> /\ sub2Args = <<>>
  /\ ret = NoRet
  /\ it = NoIter
  /\ tr = NoTensor /\ chain = <<>>

Init == InitOver(Shapes)

\* T(args...), `auto sub = T(args...)` when it returns a sub-view
RootAt(args) ==
  /\ pc = "start"
  /\ LET o == TensorAt(T, args)
     IN  /\ call' = [on |-> "T", op |-> "at", args |-> args, index |-> 0, value |-> 0]
         /\ ret' \in Finish(mem, o)
         /\ IF o.k = "view"
              THEN pc' = "sub" /\ sub' = o.view /\ subArgs' = args
              ELSE pc' = "done" /\ UNCHANGED <<sub, subArgs>>
  /\ UNCHANGED <<mem, T, sub2, sub2Args, it, tr, chain>>

\* T[index]
RootLinear(index) ==
  /\ pc = "start"
  /\ call' = [on |-> "T", op |-> "linear", args |-> <<>>, index |-> index, value |-> 0]
  /\ ret' \in Finish(mem, TensorLinear(T, index))
  /\ pc' = "done"
  /\ UNCHANGED <<mem, T, sub, sub2, subArgs, sub2Args, it, tr, chain>>

\* sub(args...), `auto sub2 = sub(args...)` when it returns a sub-view
SubAt(args) ==
  /\ pc = "sub"
  /\ LET o == TensorAt(sub, args)
     IN  /\ call' = [on |-> "sub", op |-> "at", args |-> args, index |-> 0, value |-> 0]
         /\ ret' \in Finish(mem, o)
         /\ IF o.k = "view"
              THEN pc' = "sub2" /\ sub2' = o.view /\ sub2Args' = args
              ELSE pc' = "done" /\ UNCHANGED <<sub2, sub2Args>>
  /\ UNCHANGED <<mem, T, sub, subArgs, it, tr, chain>>

\* sub[index]
SubLinear(index) ==
  /\ pc = "sub"
  /\ call' = [on |-> "sub", op |-> "linear", args |-> <<>>, index |-> index, value |-> 0]
  /\ ret' \in Finish(mem, TensorLinear(sub, index))
  /\ pc' = "done"
  /\ UNCHANGED <<mem, T, sub, sub2, subArgs, sub2Args, it, tr, chain>>

\* The program stops calling a sub-view whose extents wrapped around
\* (a span with begin > end): every extent it calls is at most MaxProbe.
Probed(t) == \A d \in 1..order(t) : t.shape.shape[d] <= MaxProbe

\* the program that calls T with any arguments and reads elements of sub
Next ==
  \/ /\ pc = "start"
     /\ \E args \in ArgTuples(T.shape.shape) : RootAt(args)
  \/ /\ pc = "start"
     /\ \E i \in Probe(T.shape.len + 1) : RootLinear(i)
  \/ /\ pc = "sub" /\ Probed(sub)
     /\ \E args \in ScalarTuples(sub.shape.shape) : SubAt(args)
  \/ /\ pc = "sub" /\ Probed(sub)
     /\ \E i \in Probe(sub.shape.len + 1) : SubLinear(i)

Spec == Init /\ [][Next]_vars

\* the program that also slices the sub-view again
NestedInit == InitOver(NestedShapes)

NestedNext ==
  \/ /\ pc = "start"
     /\ \E args \in ArgTuples(T.shape.shape) : RootAt(args)
  \/ /\ pc = "start"
     /\ \E i \in Probe(T.shape.len + 1) : RootLinear(i)
  \/ /\ pc = "sub" /\ Probed(sub)
     /\ \E args \in ArgTuples(sub.shape.shape) : SubAt(args)
  \/ /\ pc = "sub" /\ Probed(sub)
     /\ \E i \in Probe(sub.shape.len + 1) : SubLinear(i)

SpecNested == NestedInit /\ [][NestedNext]_vars

\* ---- the program that writes through T and through the sub-view
StoreVals == {0}

\* Writing outside every array is undefined: a crash, no visible effect, or
\* some element of the program overwritten.
UBWrite(m, a, v) ==
  {[mem |-> m, ret |-> Ret("crash", a, 0)], [mem |-> m, ret |-> Ret("none", a, v)]}
    \cup {[mem |-> [m EXCEPT !["data"][k] = v], ret |-> Ret("none", a, v)] :
            k \in 1..Len(m["data"])}

\* the ways `t(args...) = v` can end for a call that came to outcome o
Store(m, o, v) ==
  IF o.k = "throw" THEN {[mem |-> m, ret |-> Ret(o.err, NullPtr, 0)]}
  ELSE IF InBuffer(m, o.at)
    THEN {[mem |-> [m EXCEPT ![o.at.buf][o.at.off + 1] = v], ret |-> Ret("none", o.at, v)]}
    ELSE UBWrite(m, o.at, v)

\* T(args...) = v
RootStore(args, v) ==
  /\ pc \in {"start", "sub"}
  /\ call' = [on |-> "T", op |-> "store", args |-> args, index |-> 0, value |-> v]
  /\ \E r \in Store(mem, TensorAt(T, args), v) : mem' = r.mem /\ ret' = r.ret
  /\ UNCHANGED <<T, sub, sub2, pc, subArgs, sub2Args, it, tr, chain>>

\* sub(args...) = v
SubStore(args, v) ==
  /\ pc = "sub"
  /\ call' = [on |-> "sub", op |-> "store", args |-> args, index |-> 0, value |-> v]
  /\ \E r \in Store(mem, TensorAt(sub, args), v) : mem' = r.mem /\ ret' = r.ret
  /\ UNCHANGED <<T, sub, sub2, pc, subArgs, sub2Args, it, tr, chain>>

RECURSIVE CoordTuples(_)
CoordTuples(ext) ==
  IF ext = <<>> THEN {<<>>}
  ELSE {<<Idx(i)>> \o t : i \in 0..(Head(ext) - 1), t \in CoordTuples(Tail(ext))}

\* the arguments meet the precondition of operator(): integers below the
\* extent, spans with 0 <= begin <= end <= extent
ValidArgs(args, ext) ==
  /\ Len(args) = Len(ext)
  /\ \A d \in 1..Len(ext) :
       /\ args[d].t = "idx" => args[d].i < ext[d]
       /\ args[d].t = "span" => args[d].begin <= args[d].end /\ args[d].end <= ext[d]

AliasInit == InitOver(NestedShapes)

AliasNext ==
  \/ /\ pc = "start"
     /\ \E args \in {a \in ArgTuples(T.shape.shape) : ValidArgs(a, T.shape.shape)} :
          RootAt(args)
  \/ \E args \in CoordTuples(T.shape.shape), v \in StoreVals : RootStore(args, v)
  \/ /\ pc = "sub"
     /\ \E args \in CoordTuples(sub.shape.shape), v \in StoreVals : SubStore(args, v)

SpecAlias == AliasInit /\ [][AliasNext]_vars

\* ---- the program that constructs and reshapes a TensorView
\* DynamicTensorShape<Rank>(): len 0 and every extent 0
DefaultDynamicShape(Rank) ==
  [kind |-> "Dynamic", len |-> 0, shape |-> [d \in 1..Rank |-> 0], strides |-> <<>>]

\* how a constructor or reshape ends: the exception (or "none") and the shape
Built(e, S) == [err |-> e, shape |-> S]

\* `(shape_ < 0) || ...` over the signed arguments
AnyNegative(shape_) == \E d \in 1..Len(shape_) : shape_[d] < 0

\* {(index_t)shape_...}: the arguments converted to index_t
AsExtents(shape_) == [d \in 1..Len(shape_) |-> Wrap(shape_[d])]

\* DynamicTensorShape<Rank>(shape_...) in the checked build
DynamicConstruct(Rank, shape_) ==
  IF AnyNegative(shape_) THEN Built("BadShape", NoShape)
  ELSE Built("none", DynamicTensorShape(Rank, AsExtents(shape_)))

\* mutation of the fill loop of reshape: the trailing extents stay 0
PaddedWithZeros(Rank, ext) == [d \in 1..Rank |-> IF d <= Len(ext) THEN ext[d] ELSE 0]

\* `_shape = {(index_t)new_shape...}` followed by the loop that fills the
\* rest of the shape with 1s
Padded(Rank, ext) == [d \in 1..Rank |-> IF d <= Len(ext) THEN ext[d] ELSE 1]

\* mutation of `len = (1 * ... * new_shape)`: the old len is multiplied in
ReshapedLenAccumulated(S, new_shape) == Wrap(S.len * Product(AsExtents(new_shape)))

\* len = (1 * ... * new_shape)
ReshapedLen(S, new_shape) == Product(AsExtents(new_shape))

\* mutation of reshape: _shape is assigned before the arguments are tested
reshape_assign_before_check(S, new_shape) ==
  IF AnyNegative(new_shape)
    THEN Built("BadShape", [S EXCEPT !.shape = Padded(Len(S.shape), AsExtents(new_shape))])
    ELSE Built("none", [S EXCEPT !.shape = Padded(Len(S.shape), AsExtents(new_shape)),
                                 !.len = ReshapedLen(S, new_shape)])

\* DynamicTensorShape::reshape(new_shape...) in the checked build
reshape(S, new_shape) ==
  IF AnyNegative(new_shape) THEN Built("BadShape", S)
  ELSE Built("none", [S EXCEPT !.shape = Padded(Len(S.shape), AsExtents(new_shape)),
                               !.len = ReshapedLen(S, new_shape)])

\* TensorView<scalar, Rank>()
DefaultTensorView(Rank) == BaseTensor(DefaultDynamicShape(Rank), ViewContainer(NullPtr))

\* the first r extents of a tensor: tensor.shape(I)... of match_shape
ExtentsUpTo(t, r) == [d \in 1..r |-> t.shape.shape[d]]

\* TensorView<scalar, Rank>(tensor) for a tensor of order <= Rank:
\* the default shape, reshaped by match_shape to the extents of the tensor
TensorViewOf(Rank, tensor) ==
  BaseTensor(reshape(DefaultDynamicShape(Rank), ExtentsUpTo(tensor, order(tensor))).shape,
             ViewContainer(tensor.container))

\* ranks and signed extents the program tries
Ranks == 1..3
ExtentArgs == (0 - 1)..3

RECURSIVE ExtentTuples(_)
ExtentTuples(k) ==
  IF k = 0 THEN {<<>>} ELSE {<<e>> \o t : e \in ExtentArgs, t \in ExtentTuples(k - 1)}

\* 1 to Rank extents
ShapeArgs(Rank) == UNION {ExtentTuples(k) : k \in 1..Rank}

ShapeCallRecord(op, args) == [on |-> "T", op |-> op, args |-> args, index |-> 0, value |-> 0]

\* T = TensorView<scalar, Rank>(data, shape_...)
Construct(shape_) ==
  /\ pc = "new"
  /\ LET b == DynamicConstruct(order(T), shape_)
     IN  /\ T' = IF b.err = "none" THEN BaseTensor(b.shape, ViewContainer(DataPtr)) ELSE T
         /\ ret' = Ret(b.err, NullPtr, 0)
  /\ call' = ShapeCallRecord("construct", shape_)
  /\ pc' = "shape"
  /\ UNCHANGED <<mem, sub, sub2, subArgs, sub2Args, it, tr, chain>>

\* T.reshape(new_shape...)
Reshape(new_shape) ==
  /\ pc \in {"new", "shape"}
  /\ LET b == reshape(T.shape, new_shape)
     IN  /\ T' = BaseTensor(b.shape, T.container)
         /\ ret' = Ret(b.err, NullPtr, 0)
  /\ call' = ShapeCallRecord("reshape", new_shape)
  /\ pc' = "shape"
  /\ UNCHANGED <<mem, sub, sub2, subArgs, sub2Args, it, tr, chain>>

\* T.reshape(new_shape...) once more, with the arguments of the reshape
\* the program has just made
ReshapeAgain ==
  /\ pc = "shape" /\ call.op \in {"reshape", "reshape again"}
  /\ LET b == reshape(T.shape, call.args)
     IN  /\ T' = BaseTensor(b.shape, T.container)
         /\ ret' = Ret(b.err, NullPtr, 0)
  /\ call' = ShapeCallRecord("reshape again", call.args)
  /\ UNCHANGED <<mem, sub, sub2, pc, subArgs, sub2Args, it, tr, chain>>

\* TensorView<scalar, Rank> sub(T)
ViewOfLower(Rank) ==
  /\ pc = "shape"
  /\ sub' = TensorViewOf(Rank, T)
  /\ call' = ShapeCallRecord("view", <<Rank>>)
  /\ ret' = NoRet
  /\ pc' = "viewed"
  /\ UNCHANGED <<mem, T, sub2, subArgs, sub2Args, it, tr, chain>>

ReshapeInit ==
  /\ T \in {DefaultTensorView(R) : R \in Ranks}
  /\ mem = [b \in {"data"} |-> DataArray(6)]
  /\ sub = NoTensor /\ sub2 = NoTensor
  /\ pc = "new"
  /\ call = NoCall /\ subArgs = <<>> /\ sub2Args = <<>>
  /\ ret = NoRet
  /\ it = NoIter
  /\ tr = NoTensor /\ chain = <<>>

ReshapeNext ==
  \/ \E shape_ \in ShapeArgs(order(T)) : Construct(shape_)
  \/ \E new_shape \in ShapeArgs(order(T)) : Reshape(new_shape)
  \/ ReshapeAgain
  \/ \E R \in {r \in Ranks : r >= order(T)} : ViewOfLower(R)

SpecReshape == ReshapeInit /\ [][ReshapeNext]_vars

\* ---- the program that iterates over T or over the sub-view
\* TensorIterator(shape_, container_, pos)
TensorIterator(on, shape_, container_, pos) ==
  [on |-> on, shape |-> shape_, container |-> container_, pos |-> pos]

\* BaseTensor::begin()
begin(on, t) == TensorIterator(on, t.shape, make_view(t.container, 0), 0)

\* mutation of end(): the iterator to the last element
end_at_last(on, t) == TensorIterator(on, t.shape, make_view(t.container, 0), t.shape.len - 1)

\* BaseTensor::end()
end(on, t) == TensorIterator(on, t.shape, make_view(t.container, 0), t.shape.len)

\* TensorIterator::operator*: _container[_shape[_pos]], _pos converted to
\* index_t
IterDeref(i) == TensorLinear(BaseTensor(i.shape, i.container), Wrap(i.pos))

\* TensorIterator::operator++
IterIncrement(i) == [i EXCEPT !.pos = @ + 1]

\* TensorIterator::operator+(n)
IterPlus(i, n) == TensorIterator(i.on, i.shape, i.container, i.pos + n)

\* TensorIterator::operator==, operator!=: the positions are compared
IterEqual(a, b) == a.pos = b.pos

\* auto it = t.begin(), t being T or sub
IterBegin(on) ==
  /\ it' = begin(on, IF on = "T" THEN T ELSE sub)
  /\ call' = [on |-> on, op |-> "begin", args |-> <<>>, index |-> 0, value |-> 0]
  /\ ret' = NoRet
  /\ pc' = "loop"
  /\ UNCHANGED <<mem, T, sub, sub2, subArgs, sub2Args, tr, chain>>

\* the body of `for (; it != t.end(); it++)`: *it is read, it is incremented
IterStep ==
  /\ pc = "loop"
  /\ ~IterEqual(it, end(it.on, IF it.on = "T" THEN T ELSE sub))
  /\ call' = [on |-> it.on, op |-> "deref", args |-> <<>>, index |-> it.pos, value |-> 0]
  /\ ret' \in Finish(mem, IterDeref(it))
  /\ IF ret'.err = "none" THEN it' = IterIncrement(it) /\ pc' = pc
                          ELSE it' = it /\ pc' = "done"
  /\ UNCHANGED <<mem, T, sub, sub2, subArgs, sub2Args, tr, chain>>

\* the loop ends: it == t.end()
IterExit ==
  /\ pc = "loop"
  /\ IterEqual(it, end(it.on, IF it.on = "T" THEN T ELSE sub))
  /\ pc' = "iterated"
  /\ UNCHANGED <<mem, T, sub, sub2, call, subArgs, sub2Args, ret, it, tr, chain>>

IterInit == InitOver(Shapes)

IterNext ==
  \/ /\ pc = "start"
     /\ \E args \in {a \in ArgTuples(T.shape.shape) : ValidArgs(a, T.shape.shape)} :
          RootAt(args)
  \/ /\ pc = "start"
     /\ IterBegin("T")
  \/ /\ pc = "sub"
     /\ IterBegin("sub")
  \/ IterStep
  \/ IterExit

SpecIter == IterInit /\ [][IterNext]_vars

\* some argument is a span or all: the call returns a sub-view
IsSlice(args) == \E d \in 1..Len(args) : args[d].t # "idx"

\* ---- Transformer
\* a double, kept exact: num / den
Rat(n, d) == [num |-> n, den |-> d]

\* double f(int v) { return 2.0 * v + 1.0; }: the argument is converted to int
f(v) == Rat(2 * (v.num \div v.den) + 1, 1)

\* double g(double v) { return 1.0 / (v * v + 1.0); }
g(v) == Rat(v.den * v.den, v.num * v.num + v.den * v.den)

\* a callable passed to transform: a lambda, a function pointer or a
\* function object that calls the function fn
Callable(kind, fn) == [kind |-> kind, fn |-> fn]

\* _ComposedFunction<Inner, Outer>{_inner, _outer}
ComposedFunction(inner, outer) == [kind |-> "composed", inner |-> inner, outer |-> outer]

\* the lambda [g, f](value_type x) { return g(f(x)); }
ComposedLambda(g_, f_) == [kind |-> "gf", g |-> g_, f |-> f_]

\* mutation of _ComposedFunction::operator(): _inner(_outer(value))
RECURSIVE InvokeOuterFirst(_, _)
InvokeOuterFirst(c, v) ==
  CASE c.kind = "composed" -> InvokeOuterFirst(c.inner, InvokeOuterFirst(c.outer, v))
    [] c.kind = "gf"       -> InvokeOuterFirst(c.g, InvokeOuterFirst(c.f, v))
    [] OTHER               -> IF c.fn = "f" THEN f(v) ELSE g(v)

\* calling a callable: _ComposedFunction::operator() is _outer(_inner(value)),
\* the lambda is g(f(x)), the others call their function
RECURSIVE Invoke(_, _)
Invoke(c, v) ==
  CASE c.kind = "composed" -> Invoke(c.outer, Invoke(c.inner, v))
    [] c.kind = "gf"       -> Invoke(c.g, Invoke(c.f, v))
    [] OTHER               -> IF c.fn = "f" THEN f(v) ELSE g(v)

\* mutation of TransformedContainerWrapper::operator[]: _func is not applied
TransformedGetUnapplied(m, w, index) ==
  {IF r.err = "none" THEN Ret("none", NullPtr, Rat(r.val, 1)) ELSE r :
     r \in Finish(m, ContainerGet(w.container, index))}

\* TransformedContainerWrapper::operator[]: value = _container[index];
\* return _func(value); the inner container is a ViewContainer or another
\* TransformedContainerWrapper
RECURSIVE TransformedGet(_, _, _)
TransformedGet(m, w, index) ==
  IF IsTransformed(w.container)
    THEN {IF r.err = "none" THEN Ret("none", NullPtr, Invoke(w.func, r.val)) ELSE r :
            r \in TransformedGet(m, w.container, index)}
    ELSE {IF r.err = "none" THEN Ret("none", NullPtr, Invoke(w.func, Rat(r.val, 1))) ELSE r :
            r \in Finish(m, ContainerGet(w.container, index))}

\* transform(func, tensor) for a tensor that is no Transformer
transform(func, tensor) ==
  BaseTensor(tensor.shape,
             TransformedContainerWrapper(ContainerMakeView(tensor.container, 0), func))

\* transform(g, const Transformer &) and transform(g, Transformer &)
transform_lvalue(g_, tensor) ==
  BaseTensor(tensor.shape,
             TransformedContainerWrapper(make_view(tensor.container.container, 0),
                                         ComposedFunction(tensor.container.func, g_)))

\* transform(g, Transformer &&)
transform_rvalue(g_, tensor) ==
  BaseTensor(tensor.shape,
             TransformedContainerWrapper(tensor.container.container,
                                         ComposedLambda(g_, tensor.container.func)))

\* Transformer::operator()(indices...): subview(_shape(indices...))
TransformerAt(m, t, args) ==
  LET r == ShapeCall(t.shape, args)
  IN  IF r.err # "none" THEN {Ret(r.err, NullPtr, 0)}
      ELSE TransformedGet(m, t.container, r.val.i)

\* ---- the program that transforms T or its sub-view and reads the result
MaxChain == 2
TransformShapes == {<<3>>, <<2, 2>>}
CallableKinds == {"lambda", "pointer", "object"}
Functions == {"f", "g"}

\* the tensor the program transforms: the sub-view when it made one
Source == IF sub = NoTensor THEN T ELSE sub

\* auto tr = transform(func, Source)
Transform(func) ==
  /\ pc \in {"start", "sub"}
  /\ tr' = transform(func, Source)
  /\ chain' = <<func>>
  /\ call' = [on |-> "tr", op |-> "transform", args |-> <<func>>, index |-> 0, value |-> 0]
  /\ ret' = NoRet
  /\ pc' = "transformed"
  /\ UNCHANGED <<mem, T, sub, sub2, subArgs, sub2Args, it>>

\* auto tr2 = transform(g, tr) for the named Transformer (how = "lvalue"),
\* or transform(g, transform(.., ..)) for the temporary (how = "rvalue")
TransformAgain(g_, how) ==
  /\ pc = "transformed" /\ Len(chain) < MaxChain
  /\ tr' = IF how = "lvalue" THEN transform_lvalue(g_, tr) ELSE transform_rvalue(g_, tr)
  /\ chain' = Append(chain, g_)
  /\ call' = [on |-> "tr", op |-> how, args |-> <<g_>>, index |-> 0, value |-> 0]
  /\ ret' = NoRet
  /\ UNCHANGED <<mem, T, sub, sub2, pc, subArgs, sub2Args, it>>

\* tr(args...)
TransformedAt(args) ==
  /\ pc = "transformed"
  /\ call' = [on |-> "tr", op |-> "at", args |-> args, index |-> 0, value |-> 0]
  /\ ret' \in TransformerAt(mem, tr, args)
  /\ pc' = "done"
  /\ UNCHANGED <<mem, T, sub, sub2, subArgs, sub2Args, it, tr, chain>>

TransformInit == InitOver(TransformShapes)

TransformNext ==
  \/ /\ pc = "start"
     /\ \E args \in {a \in ArgTuples(T.shape.shape) :
                       IsSlice(a) /\ ValidArgs(a, T.shape.shape)} : RootAt(args)
  \/ \E k \in CallableKinds, fn \in Functions : Transform(Callable(k, fn))
  \/ \E fn \in Functions, how \in {"lvalue", "rvalue"} :
       TransformAgain(Callable("lambda", fn), how)
  \/ /\ pc = "transformed"
     /\ \E args \in ScalarTuples(tr.shape.shape) : TransformedAt(args)

SpecTransform == TransformInit /\ [][TransformNext]_vars

\* ---- the program that transforms a sub-view of a Transformer
\* Transformer::operator()(indices...) with a span or all among the
\* indices: make_subview(_container, spans), a SubView whose container is a
\* TransformedContainerWrapper
TransformerSubview(t, args) ==
  LET r == ShapeCall(t.shape, args)
  IN  IF r.err # "none" THEN Outcome("throw", r.err, NullPtr, NoTensor)
      ELSE Outcome("view", "none", NullPtr, make_subview(t.container, r.val.s))

\* auto tr = tr(args...): a sub-view of the Transformer
TransformedSlice(args) ==
  /\ pc = "transformed"
  /\ LET o == TransformerSubview(tr, args)
     IN  /\ o.k = "view"
         /\ tr' = o.view
         /\ ret' = Ret("none", NullPtr, 0)
  /\ call' = [on |-> "tr", op |-> "slice", args |-> args, index |-> 0, value |-> 0]
  /\ pc' = "sliced"
  /\ UNCHANGED <<mem, T, sub, sub2, subArgs, sub2Args, it, chain>>

\* auto tr = transform(g, tr) for the SubView: the overload for every tensor
\* type is the one that matches
TransformSlice(g_) ==
  /\ pc = "sliced"
  /\ tr' = transform(g_, tr)
  /\ chain' = Append(chain, g_)
  /\ call' = [on |-> "tr", op |-> "transform slice", args |-> <<g_>>, index |-> 0, value |-> 0]
  /\ ret' = NoRet
  /\ pc' = "nested"
  /\ UNCHANGED <<mem, T, sub, sub2, subArgs, sub2Args, it>>

\* tr(args...) on the transformed sub-view
NestedAt(args) ==
  /\ pc = "nested"
  /\ call' = [on |-> "tr", op |-> "at slice", args |-> args, index |-> 0, value |-> 0]
  /\ ret' \in TransformerAt(mem, tr, args)
  /\ pc' = "done"
  /\ UNCHANGED <<mem, T, sub, sub2, subArgs, sub2Args, it, tr, chain>>

TransformSliceNext ==
  \/ /\ pc = "start"
     /\ \E k \in CallableKinds, fn \in Functions : Transform(Callable(k, fn))
  \/ \E fn \in Functions, how \in {"lvalue", "rvalue"} :
       TransformAgain(Callable("lambda", fn), how)
  \/ /\ pc = "transformed"
     /\ \E args \in {a \in ArgTuples(tr.shape.shape) :
                       IsSlice(a) /\ ValidArgs(a, tr.shape.shape)} : TransformedSlice(args)
  \/ \E fn \in Functions : TransformSlice(Callable("pointer", fn))
  \/ /\ pc = "nested"
     /\ \E args \in ScalarTuples(tr.shape.shape) : NestedAt(args)

SpecTransformSlice == TransformInit /\ [][TransformSliceNext]_vars

\* ---- the program that writes to T after transforming it
WrittenVals == {0, 9}

\* T(args...) = v while the Transformer of T is alive
SourceStore(args, v) ==
  /\ pc = "transformed"
  /\ call' = [on |-> "T", op |-> "store", args |-> args, index |-> 0, value |-> v]
  /\ \E r \in Store(mem, TensorAt(T, args), v) : mem' = r.mem /\ ret' = r.ret
  /\ UNCHANGED <<T, sub, sub2, pc, subArgs, sub2Args, it, tr, chain>>

\* tr(args...), the program going on
TransformedPeek(args) ==
  /\ pc = "transformed"
  /\ call' = [on |-> "tr", op |-> "peek", args |-> args, index |-> 0, value |-> 0]
  /\ ret' \in TransformerAt(mem, tr, args)
  /\ UNCHANGED <<mem, T, sub, sub2, pc, subArgs, sub2Args, it, tr, chain>>

LazyNext ==
  \/ /\ pc = "start"
     /\ \E k \in CallableKinds, fn \in Functions : Transform(Callable(k, fn))
  \/ /\ pc = "transformed"
     /\ \E args \in CoordTuples(T.shape.shape), v \in WrittenVals : SourceStore(args, v)
  \/ /\ pc = "transformed"
     /\ \E args \in CoordTuples(T.shape.shape) : TransformedPeek(args)

SpecLazy == TransformInit /\ [][LazyNext]_vars

\* ---- the program that makes a default-constructed iterator
\* TensorIterator() = default for the iterator type of t: the shape and the
\* container are default-constructed; _pos is 0 when the iterator is
\* value-initialized (iterator{}), and has no defined value when it is
\* default-initialized (iterator s;)
DefaultIterator(t, pos) ==
  TensorIterator("sentinel",
                 IF t.shape.kind = "Dynamic" THEN DefaultDynamicShape(order(t)) ELSE t.shape,
                 ViewContainer(NullPtr), pos)

\* the positions a default-constructed iterator can hold
DefaultPositions(how) == IF how = "value" THEN {0} ELSE Probe(MaxProbe)

\* decltype(T)::iterator s{};  or  decltype(T)::iterator s;
IterSentinel(how) ==
  /\ pc = "start"
  /\ \E p \in DefaultPositions(how) : it' = DefaultIterator(T, p)
  /\ call' = [on |-> "sentinel", op |-> how, args |-> <<>>, index |-> 0, value |-> 0]
  /\ ret' = NoRet
  /\ pc' = "sentinel"
  /\ UNCHANGED <<mem, T, sub, sub2, subArgs, sub2Args, tr, chain>>

\* s == T.begin() + n; T.begin() + T.size() is the position of T.end()
SentinelCompare(n) ==
  /\ pc = "sentinel"
  /\ call' = [on |-> "sentinel", op |-> "equal", args |-> <<>>, index |-> n, value |-> 0]
  /\ ret' = Ret("none", NullPtr, IF IterEqual(it, IterPlus(begin("T", T), n)) THEN 1 ELSE 0)
  /\ pc' = "done"
  /\ UNCHANGED <<mem, T, sub, sub2, subArgs, sub2Args, it, tr, chain>>

\* *s
SentinelDeref ==
  /\ pc = "sentinel"
  /\ call' = [on |-> "sentinel", op |-> "deref", args |-> <<>>, index |-> it.pos, value |-> 0]
  /\ ret' \in Finish(mem, IterDeref(it))
  /\ pc' = "done"
  /\ UNCHANGED <<mem, T, sub, sub2, subArgs, sub2Args, it, tr, chain>>

SentinelNext ==
  \/ \E how \in {"value", "default"} : IterSentinel(how)
  \/ /\ pc = "sentinel"
     /\ \E n \in 0..T.shape.len : SentinelCompare(n)
  \/ SentinelDeref

SpecSentinel == IterInit /\ [][SentinelNext]_vars

\* ---- the program that does arithmetic on an iterator
\* TensorIterator::operator--
IterDecrement(i) == [i EXCEPT !.pos = @ - 1]

\* TensorIterator::operator-(n)
IterMinus(i, n) == TensorIterator(i.on, i.shape, i.container, i.pos - n)

\* TensorIterator::operator+=(n), operator-=(n)
IterPlusAssign(i, n) == [i EXCEPT !.pos = @ + n]
IterMinusAssign(i, n) == [i EXCEPT !.pos = @ - n]

\* mutation of operator-(other): the distance, without its sign
IterDistance(a, b) == IF a.pos >= b.pos THEN a.pos - b.pos ELSE b.pos - a.pos

\* TensorIterator::operator-(other)
IterDifference(a, b) == a.pos - b.pos

\* TensorIterator::operator<
IterLess(a, b) == a.pos < b.pos

\* the n of it + n, it += n, it -= n
ArithSteps == (0 - 2)..2

\* the positions the program lets the iterator reach
ArithPositions == (0 - MaxProbe)..(T.shape.len + MaxProbe)

ArithCall(op, n) == [on |-> "T", op |-> op, args |-> <<>>, index |-> it.pos, value |-> n]

\* auto it = T.begin() + p
ArithBegin(p) ==
  /\ pc = "start"
  /\ it' = IterPlus(begin("T", T), p)
  /\ call' = [on |-> "T", op |-> "begin", args |-> <<>>, index |-> 0, value |-> p]
  /\ ret' = NoRet
  /\ pc' = "arith"
  /\ UNCHANGED <<mem, T, sub, sub2, subArgs, sub2Args, tr, chain>>

\* ++it, --it, it += n, it -= n, it = it + n, it = it - n
ArithMove(op, n) ==
  /\ pc = "arith"
  /\ it' = CASE op = "++" -> IterIncrement(it)
             [] op = "--" -> IterDecrement(it)
             [] op = "+=" -> IterPlusAssign(it, n)
             [] op = "-=" -> IterMinusAssign(it, n)
             [] op = "+"  -> IterPlus(it, n)
             [] op = "-"  -> IterMinus(it, n)
  /\ it'.pos \in ArithPositions
  /\ call' = ArithCall(op, n)
  /\ ret' = NoRet
  /\ UNCHANGED <<mem, T, sub, sub2, pc, subArgs, sub2Args, tr, chain>>

\* (it + n) - it
ArithDifference(n) ==
  /\ pc = "arith"
  /\ call' = ArithCall("difference", n)
  /\ ret' = Ret("none", NullPtr, IterDifference(IterPlus(it, n), it))
  /\ UNCHANGED <<mem, T, sub, sub2, pc, subArgs, sub2Args, it, tr, chain>>

\* it == T.begin() + q, it < T.begin() + q
ArithCompare(op, q) ==
  /\ pc = "arith"
  /\ call' = ArithCall(op, q)
  /\ LET other == IterPlus(begin("T", T), q)
     IN  ret' = Ret("none", NullPtr,
                    IF op = "==" THEN (IF IterEqual(it, other) THEN 1 ELSE 0)
                    ELSE (IF IterLess(it, other) THEN 1 ELSE 0))
  /\ UNCHANGED <<mem, T, sub, sub2, pc, subArgs, sub2Args, it, tr, chain>>

\* *it
ArithDeref ==
  /\ pc = "arith"
  /\ call' = ArithCall("deref", 0)
  /\ ret' \in Finish(mem, IterDeref(it))
  /\ pc' = IF ret'.err = "none" THEN pc ELSE "done"
  /\ UNCHANGED <<mem, T, sub, sub2, subArgs, sub2Args, it, tr, chain>>

ArithInit == InitOver(NestedShapes)

ArithNext ==
  \/ /\ pc = "start"
     /\ \E p \in 0..T.shape.len : ArithBegin(p)
  \/ \E op \in {"++", "--"} : ArithMove(op, 1)
  \/ \E op \in {"+=", "-=", "+", "-"}, n \in ArithSteps : ArithMove(op, n)
  \/ \E n \in ArithSteps : ArithDifference(n)
  \/ /\ pc = "arith"
     /\ \E op \in {"==", "<"}, q \in 0..T.shape.len : ArithCompare(op, q)
  \/ ArithDeref

SpecArith == ArithInit /\ [][ArithNext]_vars

\* ---- owned tensors, and the program that copies a tensor
\* a std::vector or std::array that is the container of a tensor: the
\* buffer buf of the memory is its storage
OwnedContainer(buf) == [buf |-> buf, off |-> 0, owner |-> TRUE]
IsOwned(c) == "owner" \in DOMAIN c

\* Tensor<scalar, Rank>(shape...) and FixedTensor<scalar, Shape...>()
Tensor(buf, ext) == BaseTensor(DynamicTensorShape(Len(ext), ext), OwnedContainer(buf))
FixedTensor(buf, ext) == BaseTensor(FixedTensorShape(ext), OwnedContainer(buf))

OwnedTensors(shapes) ==
  {Tensor("data", e) : e \in shapes} \cup {FixedTensor("data", e) : e \in shapes}

\* what a copy comes to: the new container and the memory after it
Copied(c, m) == [container |-> c, mem |-> m]

\* mutation of the copy of a std::vector: the storage is shared
CopyContainerShared(m, c, buf) == Copied(c, m)

\* the copy constructor of a container: a ViewContainer copies its pointer,
\* a std::vector or std::array copies its elements into storage of its own
CopyContainer(m, c, buf) ==
  IF IsOwned(c)
    THEN Copied(OwnedContainer(buf),
                [b \in DOMAIN m \cup {buf} |-> IF b = buf THEN m[c.buf] ELSE m[b]])
    ELSE Copied(c, m)

\* BaseTensor(const BaseTensor &) = default: the shape and the container
\* are copied
CopyBaseTensor(m, t, buf) ==
  LET c == CopyContainer(m, t.container, buf)
  IN  [tensor |-> BaseTensor(t.shape, c.container), mem |-> c.mem]

\* auto copy = t, t being T or the sub-view made last
CopyTensor ==
  /\ pc \in {"start", "sub"}
  /\ LET c == CopyBaseTensor(mem, Source, "copy")
     IN  sub2' = c.tensor /\ mem' = c.mem
  /\ call' = [on |-> IF sub = NoTensor THEN "T" ELSE "sub", op |-> "copy",
              args |-> <<>>, index |-> 0, value |-> 0]
  /\ ret' = NoRet
  /\ pc' = "copied"
  /\ UNCHANGED <<T, sub, subArgs, sub2Args, it, tr, chain>>

\* copy(args...) = v
CopyStore(args, v) ==
  /\ pc = "copied"
  /\ call' = [on |-> "copy", op |-> "store", args |-> args, index |-> 0, value |-> v]
  /\ \E r \in Store(mem, TensorAt(sub2, args), v) : mem' = r.mem /\ ret' = r.ret
  /\ UNCHANGED <<T, sub, sub2, pc, subArgs, sub2Args, it, tr, chain>>

\* t(args...) = v for the tensor that was copied
OriginalStore(args, v) ==
  /\ pc = "copied"
  /\ call' = [on |-> "original", op |-> "store", args |-> args, index |-> 0, value |-> v]
  /\ \E r \in Store(mem, TensorAt(Source, args), v) : mem' = r.mem /\ ret' = r.ret
  /\ UNCHANGED <<T, sub, sub2, pc, subArgs, sub2Args, it, tr, chain>>

CopyInit ==
  /\ T \in RootTensors(NestedShapes) \cup OwnedTensors(NestedShapes)
  /\ mem = [b \in {"data"} |-> DataArray(T.shape.len)]
  /\ sub = NoTensor /\ sub2 = NoTensor
  /\ pc = "start"
  /\ call = NoCall /\ subArgs = <<>> /\ sub2Args = <<>>
  /\ ret = NoRet
  /\ it = NoIter
  /\ tr = NoTensor /\ chain = <<>>

CopyNext ==
  \/ /\ pc = "start"
     /\ \E args \in {a \in ArgTuples(T.shape.shape) :
                       IsSlice(a) /\ ValidArgs(a, T.shape.shape)} : RootAt(args)
  \/ CopyTensor
  \/ /\ pc = "copied"
     /\ \E args \in CoordTuples(sub2.shape.shape), v \in WrittenVals : CopyStore(args, v)
  \/ /\ pc = "copied"
     /\ \E args \in CoordTuples(sub2.shape.shape), v \in StoreVals : OriginalStore(args, v)

SpecCopy == CopyInit /\ [][CopyNext]_vars

\* ---- the program that reshapes into a new TensorView
\* tensor.data(): the pointer to the first element of the container
data(t) == [buf |-> t.container.buf, off |-> t.container.off]

\* how the free reshape ends: the exception (or "none") and the view
Viewed(e, t) == [err |-> e, tensor |-> t]

\* mutation of reshape(data, shape...): a TensorView of rank 1 over the
\* elements
reshape_pointer_flat(data_, shape_) ==
  LET b == DynamicConstruct(1, <<Product(AsExtents(shape_))>>)
  IN  IF b.err # "none" THEN Viewed(b.err, NoTensor)
      ELSE Viewed("none", BaseTensor(b.shape, ViewContainer(data_)))

\* reshape(scalar *data, Sizes... shape):
\* TensorView<scalar, sizeof...(Sizes)>(data, shape...)
reshape_pointer(data_, shape_) ==
  LET b == DynamicConstruct(Len(shape_), shape_)
  IN  IF b.err # "none" THEN Viewed(b.err, NoTensor)
      ELSE Viewed("none", BaseTensor(b.shape, ViewContainer(data_)))

\* reshape(tensor, shape...): reshape(tensor.data(), shape...)
reshape_tensor(tensor, shape_) == reshape_pointer(data(tensor), shape_)

\* the extents passed to the free reshape
FreeShapeArgs == ExtentTuples(1) \cup ExtentTuples(2)

\* auto reshaped = reshape(T, shape...)  or  reshape(data, shape...)
FreeReshape(of, shape_) ==
  /\ pc = "start"
  /\ LET v == IF of = "T" THEN reshape_tensor(T, shape_) ELSE reshape_pointer(DataPtr, shape_)
     IN  /\ sub2' = v.tensor
         /\ ret' = Ret(v.err, NullPtr, 0)
         /\ pc' = IF v.err = "none" THEN "reshaped" ELSE "done"
  /\ call' = [on |-> of, op |-> "free reshape", args |-> shape_, index |-> 0, value |-> 0]
  /\ UNCHANGED <<mem, T, sub, subArgs, sub2Args, it, tr, chain>>

\* reshaped[index]
ReshapedLinear(index) ==
  /\ pc = "reshaped"
  /\ call' = [on |-> "reshaped", op |-> "linear", args |-> <<>>, index |-> index, value |-> 0]
  /\ ret' \in Finish(mem, TensorLinear(sub2, index))
  /\ pc' = "done"
  /\ UNCHANGED <<mem, T, sub, sub2, subArgs, sub2Args, it, tr, chain>>

FreeReshapeNext ==
  \/ \E of \in {"T", "data"}, shape_ \in FreeShapeArgs : FreeReshape(of, shape_)
  \/ /\ pc = "reshaped"
     /\ \E index \in Probe(sub2.shape.len) : ReshapedLinear(index)

SpecFreeReshape == CopyInit /\ [][FreeReshapeNext]_vars

\* ---- the program that asks for an extent
\* reading std::array<index_t, Rank>::operator[] past the end is undefined:
\* any value, or a crash
UBExtent == {Ret("none", NullPtr, v) : v \in 0..MaxProbe} \cup {Ret("crash", NullPtr, 0)}

\* DynamicTensorShape::shape(d): return _shape[d]
DynamicShapeExtent(S, d) ==
  IF d < Len(S.shape) THEN {Ret("none", NullPtr, S.shape[d + 1])} ELSE UBExtent

\* FixedTensorShape::shape(d) in the checked build
FixedShapeExtent(S, d) ==
  IF d >= Len(S.shape) THEN {Ret("OutOfRange", NullPtr, 0)}
  ELSE {Ret("none", NullPtr, S.shape[d + 1])}

\* StridedShape<Rank>::shape(d): return _shape[d]
StridedShapeExtent(S, d) ==
  IF d < Len(S.shape) THEN {Ret("none", NullPtr, S.shape[d + 1])} ELSE UBExtent

\* StridedShape<1>::shape(index_t): return len
Strided1ShapeExtent(S, d) == {Ret("none", NullPtr, S.len)}

\* BaseTensor::shape(d): _shape.shape(d) for the shape type of the tensor
ShapeExtent(t, d) ==
  CASE t.shape.kind = "Dynamic"  -> DynamicShapeExtent(t.shape, d)
    [] t.shape.kind = "Fixed"    -> FixedShapeExtent(t.shape, d)
    [] t.shape.kind = "Strided1" -> Strided1ShapeExtent(t.shape, d)
    [] OTHER                     -> StridedShapeExtent(t.shape, d)

\* t.shape(d), t being T or the sub-view
ExtentOf(on, d) ==
  /\ pc = IF on = "T" THEN "start" ELSE "sub"
  /\ call' = [on |-> on, op |-> "extent", args |-> <<>>, index |-> d, value |-> 0]
  /\ ret' \in ShapeExtent(IF on = "T" THEN T ELSE sub, d)
  /\ pc' = "done"
  /\ UNCHANGED <<mem, T, sub, sub2, subArgs, sub2Args, it, tr, chain>>

ExtentNext ==
  \/ /\ pc = "start"
     /\ \E args \in {a \in ArgTuples(T.shape.shape) :
                       IsSlice(a) /\ ValidArgs(a, T.shape.shape)} : RootAt(args)
  \/ \E d \in 0..(order(T) + 1) : ExtentOf("T", d)
  \/ /\ pc = "sub"
     /\ \E d \in 0..(order(sub) + 1) : ExtentOf("sub", d)

SpecExtent == AliasInit /\ [][ExtentNext]_vars

\* ---- the program whose views have no data
\* TensorView<double, Rank> T(nullptr, shape...), FixedTensorView<..> T(nullptr)
NullTensors(shapes) ==
  {TensorView(NullPtr, e) : e \in shapes} \cup {FixedTensorView(NullPtr, e) : e \in shapes}

NullInit ==
  /\ T \in NullTensors(NestedShapes)
  /\ mem = [b \in {"data"} |-> DataArray(T.shape.len)]
  /\ sub = NoTensor /\ sub2 = NoTensor
  /\ pc = "start"
  /\ call = NoCall /\ subArgs = <<>> /\ sub2Args = <<>>
  /\ ret = NoRet
  /\ it = NoIter
  /\ tr = NoTensor /\ chain = <<>>

SpecNull == NullInit /\ [][Next]_vars

\* ---- the program that reshapes a Tensor or a TensorView in place
\* std::vector<scalar>(n): n value-initialized elements
Zeros(n) == [i \in 1..n |-> 0]

\* mutation of std::vector::resize: the buffer is allocated anew
ResizeCleared(q, n) == Zeros(n)

\* std::vector::resize(n): the first min(size, n) elements are kept, new
\* elements are value-initialized
Resize(q, n) == [i \in 1..n |-> IF i <= Len(q) THEN q[i] ELSE 0]

\* Tensor(): shape_type(), container_type(0)
DefaultTensor(Rank) == BaseTensor(DefaultDynamicShape(Rank), OwnedContainer("own"))

\* mutation of Tensor::reshape: the container is not resized
TensorReshapeUnresized(m, t, new_shape) ==
  LET b == reshape(t.shape, new_shape)
  IN  [err |-> b.err, tensor |-> BaseTensor(b.shape, t.container), mem |-> m]

\* Tensor::reshape(new_shape...): _shape.reshape(new_shape...), then
\* _container.resize(_shape.size()); an exception of the first leaves the
\* second undone
TensorReshape(m, t, new_shape) ==
  LET b == reshape(t.shape, new_shape)
  IN  IF b.err # "none" THEN [err |-> b.err, tensor |-> t, mem |-> m]
      ELSE [err |-> "none", tensor |-> BaseTensor(b.shape, t.container),
            mem |-> [m EXCEPT ![t.container.buf] = Resize(@, b.shape.len)]]

\* Tensor<double, Rank> T(shape...)
OwnedConstruct(shape_) ==
  /\ pc = "new"
  /\ LET b == DynamicConstruct(order(T), shape_)
     IN  /\ T' = IF b.err = "none" THEN BaseTensor(b.shape, OwnedContainer("own")) ELSE T
         /\ mem' = IF b.err = "none"
                     THEN [mem EXCEPT !["own"] = Zeros(Product(AsExtents(shape_)))]
                     ELSE mem
         /\ ret' = Ret(b.err, NullPtr, 0)
  /\ call' = ShapeCallRecord("construct", shape_)
  /\ pc' = "shape"
  /\ UNCHANGED <<sub, sub2, subArgs, sub2Args, it, tr, chain>>

\* T.reshape(new_shape...) for the Tensor
OwnedReshape(new_shape) ==
  /\ pc \in {"new", "shape"}
  /\ LET r == TensorReshape(mem, T, new_shape)
     IN  T' = r.tensor /\ mem' = r.mem /\ ret' = Ret(r.err, NullPtr, 0)
  /\ call' = ShapeCallRecord("reshape", new_shape)
  /\ pc' = "shape"
  /\ UNCHANGED <<sub, sub2, subArgs, sub2Args, it, tr, chain>>

\* for (i = 0; i < T.size(); ++i) T[i] = i + 1
OwnedFill ==
  /\ pc = "shape"
  /\ mem' = [mem EXCEPT ![T.container.buf] = DataArray(Len(@))]
  /\ call' = ShapeCallRecord("fill", <<>>)
  /\ ret' = NoRet
  /\ UNCHANGED <<T, sub, sub2, pc, subArgs, sub2Args, it, tr, chain>>

InPlaceRanks == 1..2

InPlaceInit ==
  /\ T \in {DefaultTensorView(R) : R \in InPlaceRanks} \cup {DefaultTensor(R) : R \in InPlaceRanks}
  /\ mem = [b \in {"data", "own"} |-> IF b = "data" THEN DataArray(6) ELSE <<>>]
  /\ sub = NoTensor /\ sub2 = NoTensor
  /\ pc = "new"
  /\ call = NoCall /\ subArgs = <<>> /\ sub2Args = <<>>
  /\ ret = NoRet
  /\ it = NoIter
  /\ tr = NoTensor /\ chain = <<>>

InPlaceNext ==
  \/ /\ IsOwned(T.container)
     /\ \E shape_ \in ShapeArgs(order(T)) : OwnedConstruct(shape_)
  \/ /\ IsOwned(T.container)
     /\ \E new_shape \in ShapeArgs(order(T)) : OwnedReshape(new_shape)
  \/ /\ IsOwned(T.container)
     /\ OwnedFill
  \/ /\ ~IsOwned(T.container)
     /\ \E shape_ \in ShapeArgs(order(T)) : Construct(shape_)
  \/ /\ ~IsOwned(T.container)
     /\ \E new_shape \in ShapeArgs(order(T)) : Reshape(new_shape)

SpecInPlace == InPlaceInit /\ [][InPlaceNext]_vars

\* ================================================================ claims
AllScalar(args) == \A d \in 1..Len(args) : args[d].t = "idx"
Coords(args) == [d \in 1..Len(args) |-> args[d].i]
Indices(idx) == [d \in 1..Len(idx) |-> Idx(idx[d])]
InRange(idx, ext) == Len(idx) = Len(ext) /\ \A d \in 1..Len(ext) : idx[d] < ext[d]

RECURSIVE InRangeTuples(_)
InRangeTuples(ext) ==
  IF ext = <<>> THEN {<<>>}
  ELSE {<<i>> \o t : i \in 0..(Head(ext) - 1), t \in InRangeTuples(Tail(ext))}

\* i1 + e1*(i2 + e2*(... + e(N-1)*iN))
RECURSIVE FirstFastest(_, _)
FirstFastest(ext, idx) ==
  IF idx = <<>> THEN 0 ELSE Head(idx) + Head(ext) * FirstFastest(Tail(ext), Tail(idx))

\* product of ext[lo..hi]
RECURSIVE ProductOver(_, _, _)
ProductOver(ext, lo, hi) == IF lo > hi THEN 1 ELSE ext[lo] * ProductOver(ext, lo + 1, hi)

\* the offset in its buffer of the element t(idx...) refers to
OffsetOf(t, idx) == TensorAt(t, Indices(idx)).at.off

\* the last call was T(i1..iN) with all-integer in-range coordinates
RootElementCall ==
  /\ call.on = "T" /\ call.op = "at" /\ AllScalar(call.args)
  /\ InRange(Coords(call.args), T.shape.shape)

DataAt(k) == [buf |-> "data", off |-> k]

\* C1: for a contiguous tensor (TensorView or FixedTensorView) with extents
\* e1..eN, T(i1..iN) with in-range coordinates refers to the buffer element
\* at offset i1 + e1*(i2 + e2*(...)), the first coordinate varying fastest;
\* over the buffer 1..6 viewed as (2,3), T(i,j) is buffer[i + 2*j] and T[3]
\* is 4.
C1_FirstCoordinateFastest ==
  /\ RootElementCall =>
       LET k == FirstFastest(T.shape.shape, Coords(call.args))
       IN  ret = Ret("none", DataAt(k), mem["data"][k + 1])
  /\ (RootElementCall /\ T.shape.shape = <<2, 3>>) =>
       ret.val = call.args[1].i + 2 * call.args[2].i + 1
  /\ (call.on = "T" /\ call.op = "linear" /\ call.index = 3 /\ T.shape.shape = <<2, 3>>) =>
       ret = Ret("none", DataAt(3), 4)

C1_Witness ==
  /\ RootElementCall /\ T.shape.kind = "Dynamic" /\ T.shape.shape = <<2, 3>>
  /\ call.args = <<Idx(1), Idx(2)>> /\ ret.val = 6

\* C2 as stated: the last dimension is contiguous (row-major): raising
\* coordinate d by one raises the offset by the product of the extents of
\* the axes after d, so by exactly 1 for the last coordinate.
C2_RowMajorAsStated ==
  RootElementCall =>
    LET ext == T.shape.shape
        idx == Coords(call.args)
    IN  \A d \in 1..Len(ext) :
          idx[d] + 1 < ext[d] =>
            OffsetOf(T, [idx EXCEPT ![d] = @ + 1]) - ret.ref.off
              = ProductOver(ext, d + 1, Len(ext))

\* C2 amended: the first dimension is contiguous (column-major): raising
\* coordinate d by one raises the offset by the product of the extents of
\* the axes before d, so by exactly 1 for the first coordinate.
C2_FirstDimensionContiguous ==
  RootElementCall =>
    LET ext == T.shape.shape
        idx == Coords(call.args)
    IN  \A d \in 1..Len(ext) :
          idx[d] + 1 < ext[d] =>
            /\ OffsetOf(T, [idx EXCEPT ![d] = @ + 1]) - ret.ref.off
                 = ProductOver(ext, 1, d - 1)
            /\ d = 1 => OffsetOf(T, [idx EXCEPT ![d] = @ + 1]) = ret.ref.off + 1

C2_Witness ==
  /\ RootElementCall /\ T.shape.kind = "Fixed" /\ T.shape.shape = <<2, 3>>
  /\ call.args = <<Idx(0), Idx(1)>> /\ ret.ref = DataAt(2)
  /\ OffsetOf(T, <<0, 2>>) = 4 /\ OffsetOf(T, <<1, 1>>) = 3

\* C3: for a shape given by strictly positive extents e1..eN (Dynamic or
\* Fixed), evaluate over the in-range coordinates is injective, and its
\* image is exactly 0 .. e1*...*eN - 1.
C3_Bijection ==
  RootElementCall =>
    LET ext == T.shape.shape
        idx == Coords(call.args)
    IN  /\ ret.ref.off \in 0..(ProductOver(ext, 1, Len(ext)) - 1)
        /\ \A other \in InRangeTuples(ext) :
             other # idx => OffsetOf(T, other) # ret.ref.off
        /\ {OffsetOf(T, i) : i \in InRangeTuples(ext)}
             = 0..(ProductOver(ext, 1, Len(ext)) - 1)

C3_Witness ==
  /\ RootElementCall /\ T.shape.kind = "Fixed" /\ T.shape.shape = <<2, 1, 2>>
  /\ call.args = <<Idx(1), Idx(0), Idx(1)>> /\ ret.ref = DataAt(3)

\* ---- slices
\* the span an argument stands for on an axis of extent n
AsSpan(a, n) == IF a.t = "all" THEN span(0, n, 1) ELSE span(a.begin, a.end, a.stride)

\* the axes of the parent that a slice keeps, in order
RECURSIVE RetainedFrom(_, _)
RetainedFrom(args, d) ==
  IF d > Len(args) THEN <<>>
  ELSE (IF args[d].t = "idx" THEN <<>> ELSE <<d>>) \o RetainedFrom(args, d + 1)
Retained(args) == RetainedFrom(args, 1)

\* (end - begin) / stride of each non-scalar argument, in order
SliceExtents(args, ext) ==
  LET r == Retained(args)
  IN  [k \in 1..Len(r) |->
         LET x == AsSpan(args[r[k]], ext[r[k]]) IN (x.end - x.begin) \div x.stride]

\* the position among the retained axes of parent axis d
PosOf(args, d) == Cardinality({e \in 1..d : args[e].t # "idx"})

\* the parent coordinates of element j of the slice
ParentCoords(args, ext, j) ==
  [d \in 1..Len(args) |->
     IF args[d].t = "idx" THEN args[d].i
     ELSE LET x == AsSpan(args[d], ext[d]) IN x.begin + x.stride * j[PosOf(args, d)]]

T_5_10_2_5 == TensorView(DataPtr, <<5, 10, 2, 5>>)
Sub_5_1_2 == TensorAt(T_5_10_2_5, <<All, Idx(2), Spn(0, 1, 1), Spn(2, 4, 1)>>)
X_10_10_10_10 == FixedTensorView(DataPtr, <<10, 10, 10, 10>>)
D_5_10_2 == TensorAt(X_10_10_10_10, <<Spn(0, 10, 2), All, Spn(0, 10, 5), Idx(0)>>)

\* C4: indexing with k >= 1 non-scalar arguments yields a sub-view of rank
\* k whose axes are the non-scalar ones in order, the extent of each being
\* (end - begin) / stride of its argument, all() counting as
\* span(0, extent, 1); T(all, 2, span(0,1), span(2,4)) on (5,10,2,5) has
\* shape (5,1,2) and x(span(0,10,2), all, span(0,10,5), 0) on
\* (10,10,10,10) has shape (5,10,2).
C4_SubviewShape ==
  /\ (call.on = "T" /\ call.op = "at" /\ IsSlice(call.args)
        /\ ValidArgs(call.args, T.shape.shape)) =>
       /\ pc = "sub" /\ subArgs = call.args /\ ret.err = "none"
  /\ (sub # NoTensor /\ ValidArgs(subArgs, T.shape.shape)) =>
       /\ order(sub) = Cardinality({d \in 1..Len(subArgs) : subArgs[d].t # "idx"})
       /\ order(sub) >= 1
       /\ sub.shape.shape = SliceExtents(subArgs, T.shape.shape)
  /\ Sub_5_1_2.k = "view" /\ Sub_5_1_2.view.shape.shape = <<5, 1, 2>>
  /\ D_5_10_2.k = "view" /\ D_5_10_2.view.shape.shape = <<5, 10, 2>>

C4_Witness ==
  /\ pc = "sub" /\ T.shape.shape = <<2, 1, 2>>
  /\ subArgs = <<Spn(0, 2, 2), Idx(0), All>>
  /\ sub.shape.shape = <<1, 2>>

Sub_5_1_2_Elements ==
  \A i \in 0..4, j \in 0..0, k \in 0..1 :
    TensorAt(Sub_5_1_2.view, <<Idx(i), Idx(j), Idx(k)>>)
      = TensorAt(T_5_10_2_5, <<Idx(i), Idx(2), Idx(j), Idx(2 + k)>>)

\* C5: element (j1..jk) of a sub-view refers to the buffer element of the
\* parent at the coordinates that are the scalar argument on a
\* scalar-indexed axis and begin + stride*j on an axis indexed by a span;
\* for T of shape (5,10,2,5), T(all, 2, span(0,1), span(2,4))(i,j,k) is
\* T(i,2,j,2+k).
C5_SubviewElement ==
  /\ (call.on = "sub" /\ call.op = "at" /\ AllScalar(call.args)
        /\ InRange(Coords(call.args), sub.shape.shape)
        /\ ValidArgs(subArgs, T.shape.shape)) =>
       LET c == ParentCoords(subArgs, T.shape.shape, Coords(call.args))
           k == FirstFastest(T.shape.shape, c)
       IN  /\ InRange(c, T.shape.shape)
           /\ TensorAt(T, Indices(c)).at = DataAt(k)
           /\ ret = Ret("none", DataAt(k), mem["data"][k + 1])
  /\ Sub_5_1_2_Elements

C5_Witness ==
  /\ call.on = "sub" /\ call.op = "at" /\ T.shape.shape = <<2, 3>>
  /\ subArgs = <<Idx(1), Spn(1, 3, 1)>> /\ call.args = <<Idx(1)>>
  /\ ret = Ret("none", DataAt(5), 6)

\* ---- slices of slices
\* the slice of the root that is the slice b of the slice a of the root
ComposeArgs(a, ext, b) ==
  [d \in 1..Len(a) |->
     IF a[d].t = "idx" THEN a[d]
     ELSE LET x == AsSpan(a[d], ext[d])
              n == (x.end - x.begin) \div x.stride
              y == b[PosOf(a, d)]
          IN  IF y.t = "idx" THEN Idx(x.begin + x.stride * y.i)
              ELSE LET z == AsSpan(y, n)
                       m == (z.end - z.begin) \div z.stride
                   IN  Spn(x.begin + x.stride * z.begin,
                           x.begin + x.stride * (z.begin + z.stride * m),
                           x.stride * z.stride)]

ValueAt(m, t, idx) ==
  LET a == TensorAt(t, Indices(idx)).at IN m[a.buf][a.off + 1]

\* the last call stored through the tensor `on` and did not throw
Stored(c, r, on) == c.on = on /\ c.op = "store" /\ r.err = "none"

C7_Aliased ==
  sub # NoTensor =>
    /\ sub.container.buf = T.container.buf
    /\ \A j \in InRangeTuples(sub.shape.shape) :
         ValueAt(mem, sub, j) = ValueAt(mem, T, ParentCoords(subArgs, T.shape.shape, j))

C7_Creation == (pc = "start" /\ pc' = "sub") => mem' = mem

C7_WriteThroughSub ==
  Stored(call', ret', "sub") =>
    LET c == ParentCoords(subArgs, T.shape.shape, Coords(call'.args))
    IN  /\ ValueAt(mem', T, c) = call'.value
        /\ ValueAt(mem', sub, Coords(call'.args)) = call'.value
        /\ \A o \in InRangeTuples(T.shape.shape) :
             o # c => ValueAt(mem', T, o) = ValueAt(mem, T, o)

C7_WriteThroughParent ==
  Stored(call', ret', "T") =>
    /\ ValueAt(mem', T, Coords(call'.args)) = call'.value
    /\ sub # NoTensor =>
         \A j \in InRangeTuples(sub.shape.shape) :
           ValueAt(mem', sub, j) =
             IF ParentCoords(subArgs, T.shape.shape, j) = Coords(call'.args)
               THEN call'.value ELSE ValueAt(mem, sub, j)

\* C7: a sub-view aliases the storage of its parent: creating it copies
\* and changes no element; after any writes, a write through a sub-view
\* element is read back through the parent at the corresponding
\* coordinates, a write through the parent is read back through the
\* sub-view, and a write through the sub-view changes no other element of
\* the parent.
C7_SubviewAliasesParent ==
  /\ []C7_Aliased
  /\ [][C7_Creation /\ C7_WriteThroughSub /\ C7_WriteThroughParent]_vars

C7_Witness ==
  /\ T.shape.shape = <<2, 2>> /\ subArgs = <<Idx(1), Spn(0, 2, 1)>>
  /\ call = [on |-> "sub", op |-> "store", args |-> <<Idx(1)>>, index |-> 0, value |-> 0]
  /\ ret = Ret("none", DataAt(3), 0)
  /\ mem["data"] = <<0, 2, 3, 0>>
  /\ ValueAt(mem, T, <<1, 1>>) = 0

\* ---- bounds checks
TargetOf(c) == IF c.on = "T" THEN T ELSE sub

ExtentsOf(t) == t.shape.shape

C8_Checks ==
  LET ext == ExtentsOf(TargetOf(call))
  IN  /\ (call.op = "at" /\ \E d \in 1..Len(ext) :
            call.args[d].t = "idx" /\ call.args[d].i >= ext[d])
           => ret.err = "OutOfRange"
      /\ (call.op = "linear" /\ call.index >= TargetOf(call).shape.len)
           => ret.err = "OutOfRange"
      /\ (call.op = "at" /\ \E d \in 1..Len(ext) :
            call.args[d].t = "span" /\ call.args[d].end > ext[d])
           => ret.err = "OutOfRange"
      /\ \A t \in RootTensors({<<2, 3>>}) :
           /\ TensorAt(t, <<Idx(2), Idx(3)>>).err = "OutOfRange"
           /\ TensorLinear(t, 6).err = "OutOfRange"
           /\ TensorAt(t, <<All, Spn(1, 9, 1)>>).err = "OutOfRange"

\* C8: in the checked build, for every shape variant, element access with a
\* scalar coordinate >= the extent of its axis, linear access T[i] with
\* i >= element_count(), and a span whose end exceeds the extent of its
\* axis each fail with OutOfRange (on (2,3): T(2,3), T[6] and
\* T(all, span(1,9))), and the failing call changes no shape and no element.
C8_OutOfRange ==
  /\ []C8_Checks
  /\ [][ret'.err = "OutOfRange" =>
          (mem' = mem /\ T' = T /\ sub' = sub /\ sub2' = sub2)]_vars

C8_Witness ==
  /\ call.on = "sub" /\ call.op = "at" /\ sub.shape.kind = "Strided"
  /\ sub.shape.shape = <<2, 2>> /\ call.args = <<Idx(1), Spn(0, 3, 1)>>
  /\ ret.err = "OutOfRange"

\* C9: in the checked build, indexing with spans that satisfy
\* 0 <= begin <= end <= extent never signals OutOfRange, for every shape
\* variant; a span(0, extent) gives the same result as all().
C9_ValidSpanAccepted ==
  LET t == TargetOf(call)
      ext == ExtentsOf(t)
  IN  (call.op = "at" /\ ValidArgs(call.args, ext)) =>
        /\ ret.err # "OutOfRange"
        /\ \A d \in 1..Len(ext) :
             call.args[d] = Spn(0, ext[d], 1) =>
               TensorAt(t, call.args) = TensorAt(t, [call.args EXCEPT ![d] = All])

\* C10: in the checked build, a span argument with begin > end signals
\* OutOfRange instead of producing a sub-view.
C10_BeginAfterEndRejected ==
  (call.op = "at" /\ \E d \in 1..Len(call.args) :
     call.args[d].t = "span" /\ call.args[d].begin > call.args[d].end)
    => (ret.err = "OutOfRange" /\ pc = "done")

\* ---- construction and reshape
ShapeOp == call.op \in {"construct", "reshape", "reshape again"}

\* C11: in the checked build, constructing or reshaping a Dynamic shape
\* with an extent that is zero or negative signals BadShape, and a failed
\* reshape leaves every extent and element_count() unchanged.
C11_NonPositiveRejected ==
  /\ []((ShapeOp /\ \E d \in 1..Len(call.args) : call.args[d] <= 0) => ret.err = "BadShape")
  /\ [][(call'.op \in {"reshape", "reshape again"} /\ ret'.err = "BadShape") => T' = T]_vars

\* product of every extent of a shape
ExtentProduct(S) == ProductOver(S.shape, 1, Len(S.shape))

\* C12: after construction and after any sequence of reshape calls,
\* successful or failing, element_count() equals the product of extent(d)
\* over every d in [0, rank()).
C12_CountIsProduct ==
  /\ T.shape.len = ExtentProduct(T.shape)
  /\ sub # NoTensor => sub.shape.len = ExtentProduct(sub.shape)

C12_Witness ==
  /\ call = ShapeCallRecord("reshape", <<2, 0 - 1>>) /\ ret.err = "BadShape"
  /\ T.shape.shape = <<3, 2, 1>> /\ T.shape.len = 6

Tensor_3_of_2_3 == DynamicConstruct(3, <<2, 3>>)
View_3_of_2_3 == TensorViewOf(3, TensorView(DataPtr, <<2, 3>>))

\* C13: constructing or reshaping a rank-R Dynamic shape with k < R
\* extents yields extents (e1..ek, 1, .., 1) and element_count e1*..*ek; a
\* TensorView of rank R built from a tensor of lower rank r has the r
\* extents of the source followed by R - r ones; Tensor<double,3>(2,3) and
\* TensorView<float,3> of a (2,3) tensor both have shape (2,3,1).
C13_PaddedWithOnes ==
  /\ (ShapeOp /\ ret.err = "none" /\ Len(call.args) < order(T)) =>
       /\ \A d \in 1..order(T) :
            T.shape.shape[d] = IF d <= Len(call.args) THEN call.args[d] ELSE 1
       /\ T.shape.len = ProductOver(call.args, 1, Len(call.args))
  /\ (call.op = "view" /\ order(T) < order(sub)) =>
       /\ \A d \in 1..order(sub) :
            sub.shape.shape[d] = IF d <= order(T) THEN T.shape.shape[d] ELSE 1
       /\ sub.shape.len = T.shape.len
       /\ sub.container = T.container
  /\ Tensor_3_of_2_3.err = "none" /\ Tensor_3_of_2_3.shape.shape = <<2, 3, 1>>
  /\ View_3_of_2_3.shape.shape = <<2, 3, 1>>

C13_Witness ==
  /\ call = ShapeCallRecord("view", <<3>>)
  /\ T.shape.shape = <<2, 3>> /\ sub.shape.shape = <<2, 3, 1>> /\ sub.shape.len = 6

\* C14: reshape(e1..eN) followed immediately by reshape(e1..eN) with the
\* same arguments leaves element_count() and every extent(d) as they were
\* after the first call.
C14_ReshapeIdempotent ==
  [][(call.op \in {"reshape", "reshape again"} /\ call'.op \in {"reshape", "reshape again"}
        /\ call'.args = call.args)
        => (T'.shape.len = T.shape.len /\ T'.shape.shape = T.shape.shape /\ ret' = ret)]_vars

C14_Witness ==
  /\ call = ShapeCallRecord("reshape again", <<3, 2>>) /\ ret.err = "none"
  /\ T.shape.shape = <<3, 2, 1>> /\ T.shape.len = 6

\* ---- linear access
\* the last call was T[i] with i < element_count()
RootLinearCall == call.on = "T" /\ call.op = "linear" /\ call.index < T.shape.len

\* C15: for contiguous shapes (Dynamic and Fixed) flat_to_offset(i) is i
\* for every i < element_count(): T[i] reads buffer element i, and
\* T[evaluate(i1..iN)] is the element T(i1..iN).
C15_LinearIsIdentity ==
  /\ RootLinearCall =>
       /\ ShapeLinear(T.shape, call.index) = Ok(IndexVal(call.index))
       /\ ret = Ret("none", DataAt(call.index), mem["data"][call.index + 1])
  /\ RootElementCall =>
       LET k == ShapeCall(T.shape, call.args).val.i
       IN  /\ ShapeLinear(T.shape, k) = Ok(IndexVal(k))
           /\ TensorLinear(T, k).at = ret.ref
           /\ Finish(mem, TensorLinear(T, k)) = {ret}

C15_Witness ==
  /\ RootLinearCall /\ T.shape.kind = "Fixed" /\ T.shape.shape = <<2, 3>>
  /\ call.index = 4 /\ ret = Ret("none", DataAt(4), 5)

\* the buffer elements of a sub-view, by a nested loop over its coordinates
NestedLoopOffsets(t) == {TensorAt(t, Indices(j)).at : j \in InRangeTuples(t.shape.shape)}

\* the buffer elements t[0], t[1], .., t[element_count() - 1]
LinearOffsets(t) == {TensorLinear(t, i).at : i \in 0..(t.shape.len - 1)}

\* C16: for a sub-view of rank >= 2, the linear positions
\* 0..element_count()-1 mapped through flat_to_offset (sub[i], iterator
\* dereference) visit exactly the physical offsets of a nested loop over
\* the coordinates of the sub-view, each exactly once.
C16_LinearVisitsEveryElement ==
  (sub # NoTensor /\ sub.shape.kind = "Strided" /\ ValidArgs(subArgs, T.shape.shape)) =>
    /\ LinearOffsets(sub) = NestedLoopOffsets(sub)
    /\ Cardinality(LinearOffsets(sub)) = sub.shape.len
    /\ (call.on = "sub" /\ call.op = "linear" /\ call.index < sub.shape.len) =>
         ret.ref \in NestedLoopOffsets(sub)

\* ---- iteration
\* the last step of the program dereferenced the iterator at position k
Dereferenced(on) == it.on = on /\ call.op = "deref" /\ ret.err = "none"

\* the sub-view is a rank-1 slice made with valid arguments
RankOneSub == sub.shape.kind = "Strided1" /\ ValidArgs(subArgs, T.shape.shape)

T_10_100 == RootTensors({<<10, 100>>})

At_4_All ==
  \A t \in T_10_100 :
    LET s == TensorAt(t, <<Idx(4), All>>).view
    IN  /\ s.shape.len = 100 /\ end("sub", s).pos = 100
        /\ \A k \in 0..99 : IterDeref(IterPlus(begin("sub", s), k)).at = DataAt(4 + 10 * k)

\* C17: iterating a rank-1 sub-view visits, in order k = 0..n-1 and
\* exactly n = extent times, the parent buffer elements at
\* base_offset + k*stride; for T of shape (10,100), T.at(4, all) iterates
\* buffer[4 + 10*k] for k = 0..99.
C17_RankOneIteration ==
  /\ (Dereferenced("sub") /\ RankOneSub) =>
       LET k == call.index
           first == TensorAt(sub, <<Idx(0)>>).at.off
       IN  /\ k < sub.shape.shape[1] /\ it.pos = k + 1
           /\ ret.ref = DataAt(first + k * sub.shape.strides[1])
           /\ ret.ref = TensorAt(T, Indices(ParentCoords(subArgs, T.shape.shape, <<k>>))).at
           /\ ret.val = mem["data"][ret.ref.off + 1]
  /\ (pc = "iterated" /\ it.on = "sub" /\ RankOneSub) => it.pos = sub.shape.shape[1]
  /\ At_4_All

C17_Witness ==
  /\ pc = "iterated" /\ it.on = "sub" /\ T.shape.shape = <<2, 3>>
  /\ subArgs = <<Idx(1), All>> /\ it.pos = 3
  /\ call.op = "deref" /\ call.index = 2 /\ ret = Ret("none", DataAt(5), 6)

C18_Steps ==
  /\ (Dereferenced("T")) =>
       /\ call.index < T.shape.len /\ it.pos = call.index + 1
       /\ ret = Ret("none", DataAt(call.index), mem["data"][call.index + 1])
  /\ (pc = "iterated" /\ it.on = "T") => it.pos = T.shape.len
  /\ IterEqual(IterPlus(begin("T", T), T.shape.len), end("T", T))
  /\ \A k \in 0..(T.shape.len - 1) : ~IterEqual(IterPlus(begin("T", T), k), end("T", T))

\* C18: iterating from begin() to end() over a contiguous tensor
\* (TensorView or FixedTensorView of any rank) performs exactly size()
\* steps, the k-th dereference yielding buffer element k, and begin()
\* incremented size() times compares equal to end().
C18_ContiguousIteration ==
  /\ []C18_Steps
  /\ [][(it.on = "T" /\ it'.on = "T") => (it'.pos = it.pos \/ it'.pos = it.pos + 1)]_vars

C18_Witness ==
  /\ pc = "iterated" /\ it.on = "T" /\ T.shape.kind = "Dynamic" /\ T.shape.shape = <<2, 1, 2>>
  /\ it.pos = 4 /\ call.op = "deref" /\ call.index = 3 /\ ret = Ret("none", DataAt(3), 4)

\* ---- transform
\* the functions of a chain applied to v, the first one first
RECURSIVE ApplyChain(_, _)
ApplyChain(fs, v) ==
  IF fs = <<>> THEN v
  ELSE ApplyChain(Tail(fs), IF Head(fs).fn = "f" THEN f(v) ELSE g(v))

\* the last call read tr at in-range coordinates
TransformedRead ==
  /\ call.on = "tr" /\ call.op = "at"
  /\ InRange(Coords(call.args), Source.shape.shape)

\* C19: for every tensor T and in-range coordinates, transform(f, T) read
\* at the coordinates is f applied to T read at the same coordinates,
\* whether f is a lambda, a function pointer or a function object, and the
\* transformed tensor has the extents of T.
C19_TransformApplies ==
  /\ (TransformedRead /\ Len(chain) = 1) =>
       /\ ret.err = "none"
       /\ ret.val = Invoke(Callable("lambda", chain[1].fn),
                           Rat(ValueAt(mem, Source, Coords(call.args)), 1))
       /\ ret.val = IF chain[1].fn = "f"
                      THEN Rat(2 * ValueAt(mem, Source, Coords(call.args)) + 1, 1)
                      ELSE Rat(1, ValueAt(mem, Source, Coords(call.args))
                                    * ValueAt(mem, Source, Coords(call.args)) + 1)
  /\ tr # NoTensor =>
       /\ tr.shape.shape = Source.shape.shape
       /\ tr.shape.len = Source.shape.len

C19_Witness ==
  /\ TransformedRead /\ chain = <<Callable("object", "f")>>
  /\ T.shape.shape = <<2, 2>> /\ sub = NoTensor
  /\ call.args = <<Idx(1), Idx(1)>> /\ ret.val = Rat(9, 1)

\* C20: transform(g, transform(f, T))(i) is g(f(T(i))) for every valid i,
\* and for a chain of any length n >= 1 the functions are applied
\* innermost-first: fn(..f1(T(i))).
C20_TransformComposes ==
  TransformedRead =>
    /\ ret.err = "none"
    /\ ret.val = ApplyChain(chain, Rat(ValueAt(mem, Source, Coords(call.args)), 1))
    /\ (Len(chain) = 2 /\ chain[1].fn = "f" /\ chain[2].fn = "g") =>
         ret.val = g(f(Rat(ValueAt(mem, Source, Coords(call.args)), 1)))

C20_Witness ==
  /\ TransformedRead /\ chain = <<Callable("pointer", "g"), Callable("lambda", "f")>>
  /\ T.shape.shape = <<3>> /\ subArgs = <<Spn(1, 3, 1)>>
  /\ tr.container.func.kind = "composed"
  /\ call.args = <<Idx(1)>> /\ ret.val = Rat(1, 1)

\* ---- nesting of transformed containers
\* the number of TransformedContainerWrappers around the innermost container
RECURSIVE Depth(_)
Depth(c) == IF IsTransformed(c) THEN 1 + Depth(c.container) ELSE 0

\* C21: transform applied to a tensor whose container is already
\* transformed (a Transformer or a sub-view of one) gives a container that
\* holds one composed function and wraps the original container directly:
\* after any number of transform applications the nesting depth is 1.
C21_DepthStaysOne ==
  (tr # NoTensor /\ call.op \in {"transform", "lvalue", "rvalue", "transform slice"}) =>
    /\ Depth(tr.container) = 1
    /\ ~IsTransformed(tr.container.container)

\* ---- laziness
\* C22: a Transformer made from an lvalue tensor T stores no element
\* values: after any sequence of writes to T made after the transform,
\* reading the Transformer at coordinate i returns f of the value T has at i
\* now.
C22_ReadsCurrentValue ==
  (pc = "transformed" /\ Len(chain) = 1) =>
    /\ \A i \in InRangeTuples(T.shape.shape) :
         TransformerAt(mem, tr, Indices(i)) =
           {Ret("none", NullPtr, ApplyChain(chain, Rat(ValueAt(mem, T, i), 1)))}
    /\ call.op = "peek" =>
         /\ ret.err = "none"
         /\ ret.val = ApplyChain(chain, Rat(ValueAt(mem, T, Coords(call.args)), 1))

C22_Witness ==
  /\ call.op = "peek" /\ call.args = <<Idx(1), Idx(0)>>
  /\ T.shape.shape = <<2, 2>> /\ chain = <<Callable("lambda", "f")>>
  /\ mem["data"] = <<0, 9, 0, 4>>
  /\ ret.val = Rat(19, 1)

\* ---- default-constructed iterators
\* C23: a default-constructed iterator compares unequal to every iterator
\* obtained from a tensor (begin(), end(), any position between), and
\* dereferencing it signals BadAccess.
C23_SentinelDistinct ==
  call.on = "sentinel" =>
    /\ call.op = "equal" => ret.val = 0
    /\ call.op = "deref" => ret.err = "BadAccess"

\* ---- iterator arithmetic
\* what the last call answered
C24_Answers ==
  pc = "arith" =>
    /\ call.op = "difference" => ret.val = call.value
    /\ call.op = "==" => (ret.val = 1 <=> it.pos = call.value)
    /\ call.op = "<" => (ret.val = 1 <=> it.pos < call.value)
    /\ (call.op = "deref" /\ it.pos >= 0 /\ it.pos < T.shape.len) =>
         ret.val = mem["data"][it.pos + 1]

\* a step and the step that undoes it
C24_RoundTrips ==
  /\ (call.op = "++" /\ call'.op = "--") => it'.pos = call.index
  /\ (call.op = "--" /\ call'.op = "++") => it'.pos = call.index
  /\ (call.op = "+=" /\ call'.op = "-=" /\ call'.value = call.value) => it'.pos = call.index
  /\ (call.op = "+" /\ call'.op = "-" /\ call'.value = call.value) => it'.pos = call.index
  /\ call'.op \in {"+=", "+"} => it'.pos = it.pos + call'.value
  /\ call'.op \in {"-=", "-"} => it'.pos = it.pos - call'.value

\* the tensor is left alone
C24_Frame ==
  /\ T' = T /\ mem' = mem
  /\ pc = "arith" => (it'.shape = it.shape /\ it'.container = it.container)

\* C24: iterator arithmetic acts on the position only: (it + n) - it is n,
\* ++ then -- restores the position, += n then -= n restores it, two
\* iterators over the same tensor are equal exactly when their positions are
\* and a < b exactly when a's position is smaller; no such operation, nor
\* dereference, changes the shape or the elements of the tensor.
C24_PositionArithmetic ==
  /\ []C24_Answers
  /\ [][C24_RoundTrips /\ C24_Frame]_vars

C24_Witness ==
  /\ pc = "arith" /\ T.shape.shape = <<2, 2>>
  /\ call = [on |-> "T", op |-> "difference", args |-> <<>>, index |-> 3, value |-> 0 - 2]
  /\ ret.val = 0 - 2

\* ---- copies
C25_Copy ==
  pc = "copied" =>
    /\ sub2.shape = Source.shape
    /\ IF IsOwned(Source.container)
         THEN sub2.container.buf # Source.container.buf
         ELSE /\ sub2.container = Source.container
              /\ \A i \in InRangeTuples(Source.shape.shape) :
                   ValueAt(mem, sub2, i) = ValueAt(mem, Source, i)

C25_Copying ==
  (pc # "copied" /\ pc' = "copied") =>
    \A i \in InRangeTuples(Source.shape.shape) :
      /\ ValueAt(mem', sub2', i) = ValueAt(mem, Source, i)
      /\ ValueAt(mem', Source, i) = ValueAt(mem, Source, i)

C25_WriteThroughCopy ==
  (pc = "copied" /\ Stored(call', ret', "copy")) =>
    /\ ValueAt(mem', sub2, Coords(call'.args)) = call'.value
    /\ IF IsOwned(Source.container)
         THEN \A i \in InRangeTuples(Source.shape.shape) :
                ValueAt(mem', Source, i) = ValueAt(mem, Source, i)
         ELSE ValueAt(mem', Source, Coords(call'.args)) = call'.value

C26_View ==
  (pc = "reshaped" /\ call.op = "free reshape") =>
    /\ sub2.shape.kind = "Dynamic"
    /\ order(sub2) = Len(call.args)
    /\ sub2.shape.shape = call.args
    /\ sub2.shape.len = ExtentProduct(sub2.shape)
    /\ sub2.container = DataPtr

C26_Element ==
  (call.on = "reshaped" /\ call.op = "linear" /\ call.index < sub2.shape.len) =>
    /\ ret.err = "none" \/ call.index >= Len(mem["data"])
    /\ ret.ref = Address(data(T), call.index)
    /\ call.index < Len(mem["data"]) => ret.val = mem["data"][call.index + 1]

C26_Accepted ==
  (call'.op = "free reshape" /\ \A d \in 1..Len(call'.args) : call'.args[d] >= 1) =>
    pc' = "reshaped"

\* C26: the free function reshape(tensor, e1..ek), for a TensorView,
\* FixedTensorView, Tensor, FixedTensor or a raw pointer, returns a new
\* TensorView of rank k with extents (e1..ek) whose element at linear index
\* i is element i of the source's buffer; the extents, the element count
\* and the elements of the source are unchanged by the call.
C26_FreeReshape ==
  /\ [](C26_View /\ C26_Element)
  /\ [][C26_Accepted /\ T' = T /\ mem' = mem]_vars

C26_Witness ==
  /\ call.on = "reshaped" /\ call.op = "linear"
  /\ IsOwned(T.container) /\ T.shape = DynamicTensorShape(2, <<2, 2>>)
  /\ sub2.shape.shape = <<1, 3>> /\ call.index = 2
  /\ ret.val = 3

\* ---- extents
\* C27: in the checked build, extent(d) with d >= rank() fails with
\* OutOfRange for every shape variant (Dynamic, Fixed and Strided), and
\* succeeds for every d < rank().
C27_ExtentChecked ==
  call.op = "extent" =>
    LET t == IF call.on = "T" THEN T ELSE sub
    IN  IF call.index >= order(t)
          THEN ret.err = "OutOfRange"
          ELSE ret.err = "none" /\ ret.val = t.shape.shape[call.index + 1]

\* ---- views without data
\* the last call asked a tensor whose data pointer is null for an element
NullElementCall ==
  /\ call.on \in {"T", "sub"}
  /\ TargetOf(call).container = NullPtr
  /\ call.op = "linear" \/ (call.op = "at" /\ AllScalar(call.args))

\* C28: in the checked build, element access with in-range indices
\* (multi-dimensional or linear) through a view whose data pointer is null
\* signals BadAccess instead of reading memory; when the indices are also
\* out of range, the OutOfRange check of the shape fires first.
C28_NullViewBadAccess ==
  NullElementCall =>
    LET t == TargetOf(call)
        inside == IF call.op = "linear" THEN call.index < t.shape.len
                  ELSE InRange(Coords(call.args), t.shape.shape)
    IN  /\ ret.err = IF inside THEN "BadAccess" ELSE "OutOfRange"
        /\ ret.ref = NullPtr

C28_Witness ==
  /\ NullElementCall /\ call.on = "sub" /\ call.op = "at"
  /\ T.shape.shape = <<2, 2>> /\ subArgs = <<Spn(0, 2, 1), All>>
  /\ call.args = <<Idx(1), Idx(1)>> /\ ret.err = "BadAccess"

\* ---- owned tensors reshaped in place
\* C29: for an owned Tensor, after construction (with all or some of the
\* extents) and after any sequence of in-place reshape calls, the length of
\* the owned buffer is element_count(); when a reshape fails with BadShape,
\* neither the shape nor the length of the buffer has changed.
C29_BufferMatchesCount ==
  /\ [](IsOwned(T.container) =>
          /\ Len(mem[T.container.buf]) = T.shape.len
          /\ T.shape.len = ExtentProduct(T.shape))
  /\ [][(IsOwned(T.container) /\ call'.op = "reshape" /\ ret'.err = "BadShape") =>
          (T' = T /\ mem' = mem)]_vars

C29_Witness ==
  /\ IsOwned(T.container) /\ call = ShapeCallRecord("reshape", <<3>>)
  /\ T.shape.shape = <<3, 1>> /\ mem["own"] = <<1, 2, 3>>

\* ---- what an in-place reshape keeps
\* the linear indices below both element counts
KeptIndices(old, new) == 0..(Min(old.shape.len, new.shape.len) - 1)

C30_ReshapeStep ==
  (call'.op = "reshape" /\ ret'.err = "none") =>
    /\ T'.container = T.container
    /\ ~IsOwned(T.container) => mem' = mem
    /\ \A i \in KeptIndices(T, T') :
         /\ Finish(mem', TensorLinear(T', i)) = Finish(mem, TensorLinear(T, i))
         /\ IsOwned(T.container) => mem'["own"][i + 1] = mem["own"][i + 1]

\* C30: an in-place reshape changes only the shape: for a TensorView the
\* data pointer and every element of the buffer are unchanged, and for an
\* owned Tensor every element at a linear index below the smaller of the
\* old and the new element count keeps its value, so T[i] reads the same
\* value before and after for every such i (as in reshaping (2,3) to (3,2)).
C30_ReshapeKeepsElements == [][C30_ReshapeStep]_vars

C30_Witness ==
  /\ IsOwned(T.container) /\ call = ShapeCallRecord("reshape", <<3, 2>>)
  /\ T.shape.shape = <<3, 2>> /\ mem["own"] = <<1, 2, 3, 4, 5, 6>>
  /\ Finish(mem, TensorLinear(T, 4)) = {Ret("none", Address(data(T), 4), 5)}

====
